---- MODULE Spec2Model ----
(***************************************************************************)
(* Multi-round search orchestration of the AI information expert backend:  *)
(* the iterative-search route and its background task, SearchService       *)
(* (searchMultipleSources, iterativeSearch, analyzeRoundResults,           *)
(* captureScreenshots), GeminiService's parse-or-fallback wrappers, the    *)
(* simple search route (executeSearch) and the Report / Search records.    *)
(*                                                                         *)
(* Texts are abstracted to what the code inspects: a title or snippet is   *)
(* the set of query terms it contains, a page content is its length, a     *)
(* model output is a sequence of tokens.  Relevance scores are kept times  *)
(* ten so that the source weights 1.0 / 1.2 / 0.8 stay integers.           *)
(***************************************************************************)
EXTENDS Integers, Sequences, FiniteSets, TLC

\* ------------------------------------------------------------------ bounds
\* Largest maxRounds a request asks for by number; a request that names none
\* runs DefaultMaxRounds rounds.
MaxRoundsOpt == 2
\* Number of external calls of one run that may answer other than nominally
\* (a provider failing, a page that cannot be scraped, a capture failing,
\* a model output other than the requested JSON, the document store starting
\* to raise), a client deleting the record of the run included.
MaxDeviations == 1
\* Largest maxResults a simple search request asks for in the model.
MaxResultsOpt == 2

\* Longest argument list the list functions are applied to on their own.
MaxLen == 3

\* Largest screenshot, in bytes, the capture tool hands back in the model.
MaxBytes == 1

\* Longest raw model output, in tokens, cleanHTMLContent is applied to on its own.
MaxTokens == 3

\* Longest urls argument captureMultipleScreenshots is called with on its own.
MaxUrls == 4

\* Last second the clock reaches, and the number of screenshots stored, while
\* the file names of the screenshot store are followed on their own.
MaxClock == 1
MaxStores == 2

\* Longest results argument enhanceResultsWithContent is called with on its own.
MaxFetches == 6

\* ------------------------------------------------------- program constants
BatchSize == 3
FetchBatchSize == 5
FilenameLimit == 100
StampLength == 19
SecondsPerMinute == 60
MaxRetries == 3
RetryDelay == 1000
DefaultMaxRounds == 3
DefaultMaxResultsPerRound == 8
FallbackRoundLimit == 3
ScreenshotTopN == 3
StatusTotalRounds == 3

\* --------------------------------------------------------------- optionals
Null == <<>>
Some(x) == <<x>>
IsNull(o) == o = <<>>
Val(o) == o[1]

Min(a, b) == IF a <= b THEN a ELSE b

\* ------------------------------------------------------------ search data
Providers == <<"google", "wikipedia">>

\* Source weights of sortResultsByRelevance, times ten.
SourceWeight(source) ==
  CASE source = "google" -> 10
    [] source = "wikipedia" -> 12
    [] source = "other" -> 8
    [] OTHER -> 10

Topic == <<"ai">>
Qualifier == "detail"

Result(source, url, title, snippet, content) ==
  [source |-> source, url |-> url, title |-> title, snippet |-> snippet,
   content |-> content, relevanceScore |-> 0]

\* What the two providers can return for a query in the model.  The second
\* google hit and the wikipedia hit share their URL; the wikipedia entry
\* carries an extract, the google entries carry no content.
G1 == Result("google", "u1", {"ai"}, {}, 0)
G2 == Result("google", "u2", {}, {"ai"}, 0)
W1 == Result("wikipedia", "u2", {"ai"}, {"ai", "detail"}, 2)
W2 == Result("wikipedia", "u3", {}, {}, 1)
W3 == Result("wikipedia", "u4", {"ai"}, {}, 1)

\* A replacement test with >= : on equal lengths the later entry wins.
RECURSIVE DedupIntoLastWins(_, _)
DedupIntoLastWins(unique, rest) ==
  IF rest = <<>> THEN unique
  ELSE LET result == Head(rest)
           idx == {i \in 1..Len(unique) : unique[i].url = result.url}
       IN IF idx = {}
          THEN DedupIntoLastWins(Append(unique, result), Tail(rest))
          ELSE LET existingIndex == CHOOSE i \in idx : \A j \in idx : i <= j
               IN IF result.content > 0 /\ result.content >= unique[existingIndex].content
                  THEN DedupIntoLastWins([unique EXCEPT ![existingIndex] = result],
                                         Tail(rest))
                  ELSE DedupIntoLastWins(unique, Tail(rest))

\* deduplicateResults: first occurrence of a URL fixes the position, a later
\* entry with the same URL replaces it when its content is strictly longer.
RECURSIVE DedupInto(_, _)
DedupInto(unique, rest) ==
  IF rest = <<>> THEN unique
  ELSE LET result == Head(rest)
           idx == {i \in 1..Len(unique) : unique[i].url = result.url}
       IN IF idx = {}
          THEN DedupInto(Append(unique, result), Tail(rest))
          ELSE LET existingIndex == CHOOSE i \in idx : \A j \in idx : i <= j
               IN IF result.content > 0 /\ result.content > unique[existingIndex].content
                  THEN DedupInto([unique EXCEPT ![existingIndex] = result], Tail(rest))
                  ELSE DedupInto(unique, Tail(rest))

\* No deduplication at all: the merged list is passed on as it is.
deduplicateResultsSkipped(results) == results

deduplicateResults(results) == DedupInto(<<>>, results)

\* Number of positions of the query (split on whitespace) that hit a text.
RECURSIVE Hits(_, _)
Hits(queryTerms, text) ==
  IF queryTerms = <<>> THEN 0
  ELSE (IF Head(queryTerms) \in text THEN 1 ELSE 0) + Hits(Tail(queryTerms), text)

RelevanceScore(result, query) ==
  (2 * Hits(query, result.title) + Hits(query, result.title \cup result.snippet))
    * SourceWeight(result.source)

\* An insertion that puts an entry before the entries of equal score.
RECURSIVE InsertByScoreUnstable(_, _)
InsertByScoreUnstable(sorted, x) ==
  IF sorted = <<>> THEN <<x>>
  ELSE IF Head(sorted).relevanceScore > x.relevanceScore
       THEN <<Head(sorted)>> \o InsertByScoreUnstable(Tail(sorted), x)
       ELSE <<x>> \o sorted

\* Array.prototype.sort with (a, b) => b.relevanceScore - a.relevanceScore:
\* stable, descending.
RECURSIVE InsertByScore(_, _)
InsertByScore(sorted, x) ==
  IF sorted = <<>> THEN <<x>>
  ELSE IF Head(sorted).relevanceScore >= x.relevanceScore
       THEN <<Head(sorted)>> \o InsertByScore(Tail(sorted), x)
       ELSE <<x>> \o sorted

RECURSIVE StableSortDesc(_, _)
StableSortDesc(sorted, rest) ==
  IF rest = <<>> THEN sorted
  ELSE StableSortDesc(InsertByScore(sorted, Head(rest)), Tail(rest))

sortResultsByRelevance(results, query) ==
  StableSortDesc(<<>>,
    [i \in 1..Len(results) |->
       [results[i] EXCEPT !.relevanceScore = RelevanceScore(results[i], query)]])

Slice(s, n) == SubSeq(s, 1, Min(n, Len(s)))

\* ------------------------------------------------------------------ state
VARIABLES
  report,           \* the Report document of the iterative job: Null or Some(doc)
  search,           \* the Search document of the simple job: Null or Some(doc)
  task,             \* "none" | "iterative" | "simple": the background task, if any
  pc,               \* position of the request handler / background task
  opts,             \* options the task was started with
  googleConfigured, \* config.search.google.apiKey and engineId are set
  wikipediaReachable, \* the Wikipedia API answers requests during this run
  round,            \* iterativeSearch: loop counter
  currentQuery,     \* iterativeSearch: query of the round being run
  searchRounds,     \* iterativeSearch: round history
  allResults,       \* iterativeSearch: accumulated results of all rounds
  screenshots,      \* iterativeSearch: accumulated screenshots
  searchPromises,   \* searchMultipleSources: one entry per enabled provider
  smsQuery,         \* searchMultipleSources: its query argument
  smsMaxResults,    \* searchMultipleSources: its maxResults option
  roundResults,     \* result of searchMultipleSources
  enhancedResults,  \* result of enhanceResultsWithContent
  roundScreenshots, \* screenshots of the round being run
  toCapture,        \* captureScreenshots: results not yet visited
  roundAnalysis,    \* result of analyzeRoundResults
  searchResult,     \* value iterativeSearch returned: Null or Some(record)
  finalAnalysis,    \* result of analyzeSearchResults: Null or Some(record)
  synthesized,      \* history: the results analyzeSearchResults was called with, Null or Some
  htmlContent,      \* result of generateHTMLReport: Null or Some(tokens)
  caught,           \* exception on its way to the task's catch block: Null or Some
  deviations,       \* external calls that answered other than nominally so far
  storeFaulty,      \* a write to the document store has raised in this run
  started,          \* history: <<round, step>> of every round step begun
  analyses,         \* history: what analyzeRoundResults returned, per round
  provided,         \* history: raw provider outcomes of the running search call
  http,             \* last HTTP response sent: Null or Some(record)
  captured,         \* history: outcome per URL of the running captureScreenshots call
  capUrl,           \* captureScreenshot: its url argument
  attempt,          \* captureScreenshot: loop counter
  capLog,           \* captureScreenshot: what it has done so far, in order
  capResult,        \* captureScreenshot: Null, or Some(returned bytes / thrown error)
  msUrls,           \* captureMultipleScreenshots: its urls argument
  msI,              \* captureMultipleScreenshots: loop counter i
  msPromises,       \* captureMultipleScreenshots: batchPromises of the running batch
  msResults,        \* captureMultipleScreenshots: results
  msReturned,       \* captureMultipleScreenshots: Null, or Some(returned array)
  paText,           \* parseAnalysisResult: its text argument, Null or Some
  paReturned,       \* parseAnalysisResult: Null, or Some(returned record)
  chRaw,            \* cleanHTMLContent: its htmlContent argument, Null or Some
  chReturned,       \* cleanHTMLContent: Null, or Some(returned text)
  clock,            \* the wall clock the file names are stamped from, in seconds
  names,            \* captureScreenshots: the file names generated and not yet stored, per job
  files,            \* ImageStorageService: the files written so far, in order
  ehResults,        \* enhanceResultsWithContent: its results argument
  ehI,              \* enhanceResultsWithContent: loop counter i
  ehPromises,       \* enhanceResultsWithContent: contentPromises of the running batch
  ehEnhanced,       \* enhanceResultsWithContent: enhancedResults
  ehReturned,       \* enhanceResultsWithContent: Null, or Some(returned array)
  fetched,          \* history: <<position, outcome>> of every content fetch that has ended
  submitted,        \* history: route and topic of the request submitted, Null or Some
  polled            \* history: the record read and the body sent by the status poll
                    \* answered last; Null once another request has been answered

loopVars == <<round, currentQuery, searchRounds, allResults, screenshots>>
smsVars == <<searchPromises, smsQuery, smsMaxResults, provided>>
roundVars == <<roundResults, enhancedResults, roundScreenshots, toCapture, roundAnalysis>>
tailVars == <<searchResult, finalAnalysis, htmlContent, synthesized>>
histVars == <<started, analyses>>
docVars == <<report, search>>
envVars == <<opts, googleConfigured, wikipediaReachable>>
captureVars == <<capUrl, attempt, capLog, capResult>>
batchVars == <<msUrls, msI, msPromises, msResults, msReturned>>
parseVars == <<paText, paReturned>>
cleanVars == <<chRaw, chReturned>>
storeVars == <<clock, names, files>>
enhVars == <<ehResults, ehI, ehPromises, ehEnhanced, ehReturned, fetched>>
fnVars == <<batchVars, parseVars, cleanVars, storeVars, enhVars>>
pollVars == <<submitted, polled>>
auxVars == <<fnVars, pollVars>>

vars == <<report, search, task, pc, opts, googleConfigured, wikipediaReachable, round,
          currentQuery,
          searchRounds, allResults, screenshots, searchPromises, smsQuery,
          smsMaxResults, roundResults, enhancedResults, roundScreenshots,
          toCapture, roundAnalysis, searchResult, finalAnalysis, htmlContent,
          synthesized,
          caught,
          deviations, storeFaulty, started, analyses, provided, http, captured,
          capUrl, attempt, capLog, capResult, msUrls, msI, msPromises, msResults,
          msReturned, paText, paReturned, chRaw, chReturned, clock, names, files,
          ehResults, ehI, ehPromises, ehEnhanced, ehReturned, fetched, submitted,
          polled>>

\* An external call may answer nominally, or otherwise while the budget lasts.
Answer(nominal) ==
  /\ nominal \/ deviations < MaxDeviations
  /\ deviations' = IF nominal THEN deviations ELSE deviations + 1

\* A write to the document store succeeds or raises.  A store that has raised
\* once may raise again at no further cost to the budget.
StoreAnswer(written) ==
  /\ Answer(written \/ storeFaulty)
  /\ storeFaulty' = (storeFaulty \/ ~written)

Error(message) == [message |-> message, code |-> Null]
Wrap(prefix, e) == [e EXCEPT !.message = <<prefix>> \o e.message]

NoAnalysis == [isNull |-> TRUE, keyFindings |-> "", nextDirection |-> <<>>, nextQuery |-> <<>>]

\* -------------------------------------------------------------- requests
\* Request bodies: what the validation of the two POST routes looks at.
TopicInputs ==
  { [type |-> "missing", length |-> 0], [type |-> "number", length |-> 0],
    [type |-> "string", length |-> 0], [type |-> "string", length |-> 1],
    [type |-> "string", length |-> 2], [type |-> "string", length |-> 201],
    [type |-> "string", length |-> 501] }

\* A validation that forgets the upper length bound.
IterativeTopicValidNoUpperBound(t) ==
  /\ t.type = "string" /\ t.length # 0
  /\ ~(t.length < 2)

\* router.post('/') of iterative-search: the two validation ifs.
IterativeTopicValid(t) ==
  /\ t.type = "string" /\ t.length # 0
  /\ ~(t.length < 2 \/ t.length > 200)

\* searchSchema of the search route: Joi.string().required().min(1).max(500).
SearchTopicValid(t) == t.type = "string" /\ t.length >= 1 /\ t.length <= 500

NoOpts ==
  [maxRounds |-> 0, maxResultsPerRound |-> 0, includeScreenshots |-> FALSE,
   generateMarkdown |-> FALSE, maxResults |-> 0, sources |-> {},
   includeContent |-> FALSE]

NewReport ==
  [status |-> "generating", searchRounds |-> <<>>, htmlContent |-> Null,
   analysisResult |-> Null, screenshots |-> <<>>, markdownReport |-> Null,
   error |-> Null, views |-> 0]

NewSearch ==
  [status |-> "pending", searchResults |-> <<>>, processedContent |-> Null,
   error |-> Null]

Response(route, status, body) == [route |-> route, status |-> status, body |-> body]

\* The functions checked on their own are not running.
BatchIdle ==
  /\ msUrls = <<>> /\ msI = 0 /\ msPromises = <<>> /\ msResults = <<>>
  /\ msReturned = Null
ParseIdle == paText = Null /\ paReturned = Null
CleanIdle == chRaw = Null /\ chReturned = Null
PollIdle == submitted = Null /\ polled = Null
StoreIdle == clock = 0 /\ names = <<>> /\ files = <<>>
EnhanceIdle ==
  /\ ehResults = <<>> /\ ehI = 0 /\ ehPromises = <<>> /\ ehEnhanced = <<>>
  /\ ehReturned = Null /\ fetched = {}
AuxIdle == BatchIdle /\ ParseIdle /\ CleanIdle /\ PollIdle /\ StoreIdle /\ EnhanceIdle

Init ==
  /\ report = Null /\ search = Null
  /\ task = "none" /\ pc = "idle"
  /\ opts = NoOpts
  /\ googleConfigured \in BOOLEAN
  /\ wikipediaReachable \in BOOLEAN
  /\ round = 0 /\ currentQuery = <<>> /\ searchRounds = <<>>
  /\ allResults = <<>> /\ screenshots = <<>>
  /\ searchPromises = <<>> /\ smsQuery = <<>> /\ smsMaxResults = 0
  /\ roundResults = <<>> /\ enhancedResults = <<>> /\ roundScreenshots = <<>>
  /\ toCapture = <<>> /\ roundAnalysis = NoAnalysis
  /\ searchResult = Null /\ finalAnalysis = Null /\ htmlContent = Null
  /\ synthesized = Null
  /\ caught = Null /\ deviations = 0 /\ storeFaulty = FALSE
  /\ started = {} /\ analyses = <<>> /\ provided = <<>>
  /\ http = Null
  /\ captured = <<>>
  /\ capUrl = "" /\ attempt = 0 /\ capLog = <<>> /\ capResult = Null
  /\ AuxIdle

\* options.maxRounds || 3
RequestedMaxRounds(mr) == IF mr = 0 THEN DefaultMaxRounds ELSE mr

\* The options of the requests submitted: every round count with the other
\* options at their defaults (maxRounds 0 stands for a request that names
\* none), every choice of the two flags with the default round count, and a
\* request for one round more than the status route reports as the total.
IterativeOptions ==
  { [maxRounds |-> mr, includeScreenshots |-> TRUE, generateMarkdown |-> TRUE] :
      mr \in {-1} \cup 0..MaxRoundsOpt }
    \cup { [maxRounds |-> 0, includeScreenshots |-> shots, generateMarkdown |-> md] :
             shots \in BOOLEAN, md \in BOOLEAN }
    \cup { [maxRounds |-> StatusTotalRounds + 1, includeScreenshots |-> FALSE,
            generateMarkdown |-> FALSE] }

\* A handler that sends its response before awaiting report.save(): a failed
\* save is then found out after the client has been told the job started.
SubmitIterativeRespondFirst ==
  /\ pc = "idle"
  /\ \E t \in TopicInputs, o \in IterativeOptions, saved \in BOOLEAN :
     /\ submitted' = Some([route |-> "iterative-search", topic |-> t])
     /\ IF ~IterativeTopicValid(t)
       THEN /\ http' = Some(Response("iterative-search", 400, "invalid topic"))
            /\ pc' = "rejected"
            /\ UNCHANGED <<report, task, opts, deviations, storeFaulty>>
       ELSE /\ StoreAnswer(saved)
            /\ IF saved
               THEN /\ report' = Some(NewReport)
                    /\ opts' = [NoOpts EXCEPT
                                  !.maxRounds = RequestedMaxRounds(o.maxRounds),
                                  !.maxResultsPerRound = DefaultMaxResultsPerRound,
                                  !.includeScreenshots = o.includeScreenshots,
                                  !.generateMarkdown = o.generateMarkdown]
                    /\ task' = "iterative"
                    /\ pc' = "scheduled"
                    /\ http' = Some(Response("iterative-search", 200, "started"))
               ELSE /\ http' = Some(Response("iterative-search", 200, "started"))
                    /\ pc' = "rejected"
                    /\ UNCHANGED <<report, task, opts>>
  /\ UNCHANGED <<captured, captureVars, fnVars, polled>>
  /\ UNCHANGED <<search, googleConfigured, wikipediaReachable, loopVars, smsVars,
                 roundVars, tailVars,
                 caught, histVars>>

\* POST /api/iterative-search: validate, create the Report in status
\* generating, schedule the background task with setImmediate, respond.
SubmitIterative ==
  /\ pc = "idle"
  /\ \E t \in TopicInputs, o \in IterativeOptions, saved \in BOOLEAN :
     /\ submitted' = Some([route |-> "iterative-search", topic |-> t])
     /\ IF ~IterativeTopicValid(t)
       THEN /\ http' = Some(Response("iterative-search", 400, "invalid topic"))
            /\ pc' = "rejected"
            /\ UNCHANGED <<report, task, opts, deviations, storeFaulty>>
       ELSE /\ StoreAnswer(saved)
            /\ IF saved
               THEN /\ report' = Some(NewReport)
                    /\ opts' = [NoOpts EXCEPT
                                  !.maxRounds = RequestedMaxRounds(o.maxRounds),
                                  !.maxResultsPerRound = DefaultMaxResultsPerRound,
                                  !.includeScreenshots = o.includeScreenshots,
                                  !.generateMarkdown = o.generateMarkdown]
                    /\ task' = "iterative"
                    /\ pc' = "scheduled"
                    /\ http' = Some(Response("iterative-search", 200, "started"))
               ELSE /\ http' = Some(Response("iterative-search", 500, "save failed"))
                    /\ pc' = "rejected"
                    /\ UNCHANGED <<report, task, opts>>
  /\ UNCHANGED <<captured, captureVars, fnVars, polled>>
  /\ UNCHANGED <<search, googleConfigured, wikipediaReachable, loopVars, smsVars,
                 roundVars, tailVars,
                 caught, histVars>>

\* The setImmediate callback starts and calls iterativeSearch, which sets up
\* its locals.
BeginTask ==
  /\ pc = "scheduled" /\ task = "iterative"
  /\ round' = 1
  /\ currentQuery' = Topic
  /\ searchRounds' = <<>> /\ allResults' = <<>> /\ screenshots' = <<>>
  /\ pc' = "loop"
  /\ UNCHANGED <<captured, captureVars, auxVars>>
  /\ UNCHANGED <<storeFaulty, docVars, task, envVars, smsVars, roundVars, tailVars, caught,
                 deviations, histVars, http>>

\* searchMultipleSources up to Promise.all: one promise per enabled source.
CallSearch(query, maxResults, sources) ==
  /\ searchPromises' =
       SelectSeq([i \in 1..Len(Providers) |->
                    [source |-> Providers[i], settled |-> FALSE, error |-> FALSE,
                     results |-> <<>>]],
                 LAMBDA e : e.source \in sources)
  /\ smsQuery' = query
  /\ smsMaxResults' = maxResults
  /\ provided' = <<>>

\* A loop test that lets one round too many through.
LoopTestOffByOne(rnd, maxRounds) == rnd <= maxRounds + 1

\* for (let round = 1; round <= maxRounds; round++)
LoopTest(rnd, maxRounds) == rnd <= maxRounds

\* A round loop that does not await the round analysis: the next round's
\* search is started while the analysis call is still out.
StartRoundUnawaited ==
  /\ task = "iterative"
  /\ \/ /\ pc = "loop" /\ LoopTest(round, opts.maxRounds)
        /\ CallSearch(currentQuery, opts.maxResultsPerRound, {"google", "wikipedia"})
        /\ started' = started \cup {<<round, "search">>}
        /\ UNCHANGED loopVars
     \/ /\ pc = "analyze" /\ LoopTest(round + 1, opts.maxRounds)
        /\ CallSearch(currentQuery, opts.maxResultsPerRound, {"google", "wikipedia"})
        /\ started' = started \cup {<<round + 1, "search">>}
        /\ round' = round + 1
        /\ UNCHANGED <<currentQuery, searchRounds, allResults, screenshots>>
  /\ pc' = "searching"
  /\ UNCHANGED <<captured, captureVars, auxVars>>
  /\ UNCHANGED <<storeFaulty, docVars, task, envVars, roundVars, tailVars, caught,
                 deviations, analyses, http>>

\* The loop test passes and the round begins with its call of
\* searchMultipleSources.
StartRound ==
  /\ pc = "loop" /\ task = "iterative"
  /\ LoopTest(round, opts.maxRounds)
  /\ CallSearch(currentQuery, opts.maxResultsPerRound, {"google", "wikipedia"})
  /\ started' = started \cup {<<round, "search">>}
  /\ pc' = "searching"
  /\ UNCHANGED <<captured, captureVars, auxVars>>
  /\ UNCHANGED <<storeFaulty, docVars, task, envVars, loopVars, roundVars, tailVars, caught,
                 deviations, analyses, http>>

\* What a provider's search call can do: return results or raise.
Returned(results) == [ok |-> TRUE, results |-> results]
Raised == [ok |-> FALSE, results |-> <<>>]

NominalResponse(source) ==
  IF source = "google"
  THEN (IF googleConfigured THEN Returned(<<G1, G2>>) ELSE Raised)
  ELSE (IF wikipediaReachable THEN Returned(<<W2, W1, W3>>) ELSE Raised)

ProviderResponses(source) ==
  IF source = "google"
  THEN (IF googleConfigured THEN {Returned(<<G1, G2>>), Raised} ELSE {Raised})
  ELSE (IF wikipediaReachable
        THEN {Returned(<<W1>>), Returned(<<W2, W1, W3>>), Raised}
        ELSE {Raised})

\* One provider promise settles: .then wraps the results, .catch the error.
ProviderSettles ==
  /\ pc = "searching"
  /\ \E i \in 1..Len(searchPromises) :
       /\ ~searchPromises[i].settled
       /\ \E resp \in ProviderResponses(searchPromises[i].source) :
            /\ Answer(resp = NominalResponse(searchPromises[i].source))
            /\ searchPromises' =
                 [searchPromises EXCEPT ![i] =
                    [source |-> @.source, settled |-> TRUE, error |-> ~resp.ok,
                     results |-> resp.results]]
            /\ provided' = Append(provided, [source |-> searchPromises[i].source,
                                              response |-> resp])
  /\ UNCHANGED <<captured, captureVars, auxVars>>
  /\ UNCHANGED <<storeFaulty, docVars, task, pc, envVars, loopVars, smsQuery, smsMaxResults,
                 roundVars, tailVars, caught, histVars, http>>

\* A merge that takes the results in the order the provider calls completed,
\* as pushing them from the .then callbacks would.
RECURSIVE ConcatArrived(_)
ConcatArrived(outcomes) ==
  IF outcomes = <<>> THEN <<>>
  ELSE Head(outcomes).response.results \o ConcatArrived(Tail(outcomes))

MergeInArrivalOrder(settledPromises) == ConcatArrived(provided)

\* A merge loop that stops at the first failed provider instead of skipping it.
RECURSIVE MergeSettledStopAtError(_)
MergeSettledStopAtError(settledPromises) ==
  IF settledPromises = <<>> \/ Head(settledPromises).error THEN <<>>
  ELSE Head(settledPromises).results \o MergeSettledStopAtError(Tail(settledPromises))

\* The for loop over Promise.all's array: entries with an error are skipped.
RECURSIVE MergeSettled(_)
MergeSettled(settledPromises) ==
  IF settledPromises = <<>> THEN <<>>
  ELSE (IF Head(settledPromises).error THEN <<>> ELSE Head(settledPromises).results)
         \o MergeSettled(Tail(settledPromises))

\* searchMultipleSources after Promise.all: merge, dedupe, sort, slice.
searchMultipleSources(settledPromises, query, maxResults) ==
  Slice(sortResultsByRelevance(deduplicateResults(MergeSettled(settledPromises)), query),
        maxResults)

\* Promise.all resolves once every provider promise has settled;
\* searchMultipleSources returns to its caller: iterativeSearch, or
\* executeSearch, which skips the enhancement unless includeContent is set.
SearchReturns ==
  /\ pc = "searching"
  /\ \A i \in 1..Len(searchPromises) : searchPromises[i].settled
  /\ roundResults' = searchMultipleSources(searchPromises, smsQuery, smsMaxResults)
  /\ IF task = "simple" /\ ~opts.includeContent
     THEN /\ enhancedResults' = roundResults'
          /\ pc' = "storeResults"
     ELSE /\ enhancedResults' = <<>>
          /\ pc' = "enhance"
  /\ UNCHANGED <<captured, captureVars, auxVars>>
  /\ UNCHANGED <<storeFaulty, docVars, task, envVars, loopVars, smsVars, roundScreenshots,
                 toCapture, roundAnalysis, tailVars, caught, deviations, histVars,
                 http>>

\* Length of the text scrapePageContent extracts from a page that loads.
PageContent == 3

\* enhanceResultsWithContent: every result gets the scraped content, the
\* empty string where the fetch failed; order and other fields are kept.
enhanceResultsWithContent(results, failedFetches) ==
  [i \in 1..Len(results) |->
     [results[i] EXCEPT !.content = IF i \in failedFetches THEN 0 ELSE PageContent]]

\* The content enhancement of a result list, followed in iterativeSearch by
\* the decision whether to capture screenshots of the first three results.
EnhanceResults ==
  /\ pc = "enhance"
  /\ \E failedFetches \in SUBSET (1..Len(roundResults)) :
       /\ deviations + Cardinality(failedFetches) <= MaxDeviations
       /\ deviations' = deviations + Cardinality(failedFetches)
       /\ enhancedResults' = enhanceResultsWithContent(roundResults, failedFetches)
  /\ captured' = <<>>
  /\ IF task = "simple"
     THEN /\ pc' = "storeResults"
          /\ UNCHANGED <<roundScreenshots, toCapture, started>>
     ELSE /\ started' = started \cup {<<round, "enhance">>}
          /\ roundScreenshots' = <<>>
          /\ IF opts.includeScreenshots /\ Len(enhancedResults') > 0
             THEN /\ toCapture' = Slice(enhancedResults', ScreenshotTopN)
                  /\ pc' = "capture"
             ELSE /\ toCapture' = <<>>
                  /\ pc' = "analyze"
  /\ UNCHANGED <<captureVars, auxVars>>
  /\ UNCHANGED <<storeFaulty, docVars, task, envVars, loopVars, smsVars, roundResults,
                 roundAnalysis, tailVars, caught, analyses, http>>

Screenshot(result) == [url |-> result.url, source |-> result.source]

\* A capture loop that drops from the round's results the entry whose
\* screenshot could not be taken or stored.
CaptureOneDroppingFailed ==
  /\ pc = "capture" /\ toCapture # <<>>
  /\ \E outcome \in {"saved", "captureFailed", "storeFailed"} :
       /\ Answer(outcome = "saved")
       /\ roundScreenshots' =
            IF outcome = "saved"
            THEN Append(roundScreenshots, Screenshot(Head(toCapture)))
            ELSE roundScreenshots
       /\ captured' = Append(captured, [url |-> Head(toCapture).url, outcome |-> outcome])
       /\ enhancedResults' =
            IF outcome = "saved"
            THEN enhancedResults
            ELSE SelectSeq(enhancedResults, LAMBDA e : e.url # Head(toCapture).url)
  /\ toCapture' = Tail(toCapture)
  /\ started' = started \cup {<<round, "capture">>}
  /\ pc' = IF toCapture' = <<>> THEN "analyze" ELSE "capture"
  /\ UNCHANGED <<captureVars, auxVars>>
  /\ UNCHANGED <<storeFaulty, docVars, task, envVars, loopVars, smsVars, roundResults,
                 roundAnalysis, tailVars, caught, analyses, http>>

\* A capture loop that pushes the screenshot entry even though storing the
\* image failed.
CaptureOneKeepingUnstored ==
  /\ pc = "capture" /\ toCapture # <<>>
  /\ \E outcome \in {"saved", "captureFailed", "storeFailed"} :
       /\ Answer(outcome = "saved")
       /\ roundScreenshots' =
            IF outcome \in {"saved", "storeFailed"}
            THEN Append(roundScreenshots, Screenshot(Head(toCapture)))
            ELSE roundScreenshots
       /\ captured' = Append(captured, [url |-> Head(toCapture).url, outcome |-> outcome])
  /\ toCapture' = Tail(toCapture)
  /\ started' = started \cup {<<round, "capture">>}
  /\ pc' = IF toCapture' = <<>> THEN "analyze" ELSE "capture"
  /\ UNCHANGED <<captureVars, auxVars>>
  /\ UNCHANGED <<storeFaulty, docVars, task, envVars, loopVars, smsVars, roundResults,
                 enhancedResults, roundAnalysis, tailVars, caught, analyses, http>>

\* captureScreenshots, one pass of its for loop: capture, then store; a
\* failure of either is logged and the URL is skipped.
CaptureOne ==
  /\ pc = "capture" /\ toCapture # <<>>
  /\ \E outcome \in {"saved", "captureFailed", "storeFailed"} :
       /\ Answer(outcome = "saved")
       /\ roundScreenshots' =
            IF outcome = "saved"
            THEN Append(roundScreenshots, Screenshot(Head(toCapture)))
            ELSE roundScreenshots
       /\ captured' = Append(captured, [url |-> Head(toCapture).url, outcome |-> outcome])
  /\ toCapture' = Tail(toCapture)
  /\ started' = started \cup {<<round, "capture">>}
  /\ pc' = IF toCapture' = <<>> THEN "analyze" ELSE "capture"
  /\ UNCHANGED <<captureVars, auxVars>>
  /\ UNCHANGED <<storeFaulty, docVars, task, envVars, loopVars, smsVars, roundResults,
                 enhancedResults, roundAnalysis, tailVars, caught, analyses, http>>

\* ------------------------------------------------------- round analysis
RoundTags == <<"r1", "r2", "r3", "r4", "r5">>
ProposedQuery(rnd) == <<"ai", RoundTags[rnd]>>
ProposedDirection(rnd) == <<"trend", RoundTags[rnd]>>

\* What the model can answer to the round prompt: the requested JSON object
\* (with or without a next direction / next query), the JSON literal null,
\* text that is no JSON, or a transport error.
RoundOutput(kind, dir, query) == [kind |-> kind, dir |-> dir, query |-> query]
NominalRoundOutput == RoundOutput("object", TRUE, TRUE)
RoundOutputs ==
  { RoundOutput("object", d, q) : d \in BOOLEAN, q \in BOOLEAN }
    \cup { RoundOutput("garbage", FALSE, FALSE), RoundOutput("null", FALSE, FALSE),
           RoundOutput("raise", FALSE, FALSE) }

Analysis(keyFindings, nextDirection, nextQuery) ==
  [isNull |-> FALSE, keyFindings |-> keyFindings, nextDirection |-> nextDirection,
   nextQuery |-> nextQuery]

\* analyzeRoundResults: the parsed value as it is, the canned finding when
\* JSON.parse throws, the error finding when the model call throws.
analyzeRoundResults(out, topic, rnd) ==
  CASE out.kind = "raise" -> Analysis("analysis error", <<>>, <<>>)
    [] out.kind = "garbage" ->
         Analysis("needs more detail",
                  IF rnd < FallbackRoundLimit THEN Append(topic, Qualifier) ELSE <<>>,
                  IF rnd < FallbackRoundLimit THEN Append(topic, Qualifier) ELSE <<>>)
    [] out.kind = "null" -> NoAnalysis
    [] OTHER ->
         Analysis("model findings",
                  IF out.dir THEN ProposedDirection(rnd) ELSE <<>>,
                  IF out.query THEN ProposedQuery(rnd) ELSE <<>>)

AnalyzeRound ==
  /\ pc = "analyze"
  /\ \E out \in RoundOutputs :
       /\ Answer(out = NominalRoundOutput)
       /\ roundAnalysis' = analyzeRoundResults(out, Topic, round)
  /\ analyses' = Append(analyses, roundAnalysis')
  /\ started' = started \cup {<<round, "analyze">>}
  /\ pc' = "record"
  /\ UNCHANGED <<captured, captureVars, auxVars>>
  /\ UNCHANGED <<storeFaulty, docVars, task, envVars, loopVars, smsVars, roundResults,
                 enhancedResults, roundScreenshots, toCapture, tailVars, caught,
                 http>>

RoundData ==
  [roundNumber |-> round, query |-> currentQuery, results |-> enhancedResults,
   screenshots |-> roundScreenshots, keyFindings |-> roundAnalysis.keyFindings,
   nextDirection |-> roundAnalysis.nextDirection]

\* The query of the next round: replaced only when rounds remain and the
\* analysis carries a next direction.
NextQuery(query, analysis, rnd, maxRounds) ==
  IF rnd < maxRounds /\ analysis.nextDirection # <<>>
  THEN (IF analysis.nextQuery # <<>> THEN analysis.nextQuery ELSE analysis.nextDirection)
  ELSE query

\* A loop body that puts the newest round first (unshift for push).
RecordRoundNewestFirst ==
  /\ pc = "record"
  /\ IF roundAnalysis.isNull
     THEN /\ caught' = Some(Wrap("Iterative search failed", Error(<<"TypeError">>)))
          /\ pc' = "catch"
          /\ UNCHANGED loopVars
     ELSE /\ searchRounds' = <<RoundData>> \o searchRounds
          /\ allResults' = allResults \o enhancedResults
          /\ screenshots' = screenshots \o roundScreenshots
          /\ currentQuery' = NextQuery(currentQuery, roundAnalysis, round, opts.maxRounds)
          /\ round' = round + 1
          /\ pc' = "loop"
          /\ UNCHANGED caught
  /\ UNCHANGED <<captured, captureVars, auxVars>>
  /\ UNCHANGED <<storeFaulty, docVars, task, envVars, smsVars, roundVars, tailVars, deviations,
                 histVars, http>>

\* Rest of the loop body: build roundData (reading a field of a null
\* analysis throws, which the try of iterativeSearch rethrows), push it,
\* accumulate, pick the next query, round++.
RecordRound ==
  /\ pc = "record"
  /\ IF roundAnalysis.isNull
     THEN /\ caught' = Some(Wrap("Iterative search failed", Error(<<"TypeError">>)))
          /\ pc' = "catch"
          /\ UNCHANGED loopVars
     ELSE /\ searchRounds' = Append(searchRounds, RoundData)
          /\ allResults' = allResults \o enhancedResults
          /\ screenshots' = screenshots \o roundScreenshots
          /\ currentQuery' = NextQuery(currentQuery, roundAnalysis, round, opts.maxRounds)
          /\ round' = round + 1
          /\ pc' = "loop"
          /\ UNCHANGED caught
  /\ UNCHANGED <<captured, captureVars, auxVars>>
  /\ UNCHANGED <<storeFaulty, docVars, task, envVars, smsVars, roundVars, tailVars, deviations,
                 histVars, http>>

\* The loop test fails: the round budget is used up.
ExitLoop ==
  /\ pc = "loop" /\ task = "iterative"
  /\ ~LoopTest(round, opts.maxRounds)
  /\ pc' = "synthesize"
  /\ UNCHANGED <<captured, captureVars, auxVars>>
  /\ UNCHANGED <<storeFaulty, docVars, task, envVars, loopVars, smsVars, roundVars, tailVars,
                 caught, deviations, histVars, http>>

\* ------------------------------------------------------- final synthesis
\* Confidence values are kept in hundredths.
DefaultConfidence == 70
FallbackConfidence == 10

\* What the model can answer to the synthesis prompt: a JSON object, the
\* JSON literal null, another JSON scalar, text that is no JSON, or a
\* transport error.  A field of the object that is absent reads "undefined"
\* (confidence: -1); "[...]" values are arrays.
AnalysisOutput(kind, summary, keyPoints, categories, sources, confidence) ==
  [kind |-> kind, summary |-> summary, keyPoints |-> keyPoints,
   categories |-> categories, sources |-> sources, confidence |-> confidence]
NominalAnalysisOutput ==
  AnalysisOutput("object", "text", "[points]", "[items]", "[items]", 90)
NoObject(kind) == AnalysisOutput(kind, "undefined", "undefined", "undefined", "undefined", -1)
AnalysisOutputs ==
  { NominalAnalysisOutput,
    AnalysisOutput("object", "text", "[points]", "undefined", "undefined", -1),
    AnalysisOutput("object", "text", "[points]", "[items]", "[items]", 0),
    AnalysisOutput("object", "text", "[points]", "[items]", "[items]", 150),
    AnalysisOutput("object", "undefined", "[points]", "[items]", "[items]", 90),
    AnalysisOutput("object", "text", "string", "[items]", "[items]", 90),
    NoObject("null"), NoObject("garbage"), NoObject("raise") }

AnalysisResult(summary, keyPoints, categories, sources, confidence) ==
  [summary |-> summary, keyPoints |-> keyPoints, categories |-> categories,
   sources |-> sources, confidence |-> confidence]

\* JavaScript truthiness of a field value, Array.isArray, and a || b.
Truthy(v) == v \notin {"undefined", ""}
IsArray(v) == v \in {"[]", "[points]", "[items]"}
OrElse(v, d) == IF Truthy(v) THEN v ELSE d

\* A fallback record that carries the default confidence.
parseAnalysisResultDefaultOnFailure(out) ==
  IF out.kind = "object" /\ Truthy(out.summary) /\ Truthy(out.keyPoints)
       /\ IsArray(out.keyPoints)
  THEN AnalysisResult(out.summary, out.keyPoints, OrElse(out.categories, "[]"),
                      OrElse(out.sources, "[]"),
                      IF out.confidence = -1 \/ out.confidence = 0
                      THEN DefaultConfidence ELSE out.confidence)
  ELSE AnalysisResult("parse failed", "[no key points]", "[]", "[]", DefaultConfidence)

\* parseAnalysisResult: the parsed fields with defaults, or the fallback
\* record when the text does not parse (or reading a field of the parsed
\* value throws) or lacks summary / a keyPoints array.
parseAnalysisResult(out) ==
  IF out.kind = "object" /\ Truthy(out.summary) /\ Truthy(out.keyPoints)
       /\ IsArray(out.keyPoints)
  THEN AnalysisResult(out.summary, out.keyPoints, OrElse(out.categories, "[]"),
                      OrElse(out.sources, "[]"),
                      IF out.confidence = -1 \/ out.confidence = 0
                      THEN DefaultConfidence ELSE out.confidence)
  ELSE AnalysisResult("parse failed", "[no key points]", "[]", "[]", FallbackConfidence)

\* analyzeSearchResults: a transport error of the model call is rethrown
\* as "AI analysis failed"; any text goes through parseAnalysisResult.
\* Returns Some(result) or Null when it throws.
analyzeSearchResults(out) ==
  IF out.kind = "raise" THEN Null ELSE Some(parseAnalysisResult(out))

Synthesize ==
  /\ pc = "synthesize"
  /\ \E out \in AnalysisOutputs :
       /\ Answer(out = NominalAnalysisOutput)
       /\ finalAnalysis' = analyzeSearchResults(out)
  /\ synthesized' = Some(allResults)
  /\ IF IsNull(finalAnalysis')
     THEN /\ caught' = Some(Wrap("Iterative search failed",
                               Wrap("AI analysis failed", Error(<<"model error">>))))
          /\ pc' = "catch"
     ELSE /\ pc' = "markdown"
          /\ UNCHANGED caught
  /\ UNCHANGED <<captured, captureVars, auxVars>>
  /\ UNCHANGED <<storeFaulty, docVars, task, envVars, loopVars, smsVars, roundVars, searchResult,
                 htmlContent, histVars, http>>

\* The markdown report (when asked for) and the return value of
\* iterativeSearch; a failing file write is rethrown.
ReturnResult ==
  /\ pc = "markdown"
  /\ \E written \in BOOLEAN :
       /\ written \/ opts.generateMarkdown
       /\ Answer(written)
       /\ IF written
          THEN /\ searchResult' =
                    Some([searchRounds |-> searchRounds,
                          totalResults |-> Len(allResults),
                          uniqueResults |-> deduplicateResults(allResults),
                          screenshots |-> screenshots,
                          analysisResult |-> Val(finalAnalysis),
                          markdownReport |->
                            IF opts.generateMarkdown THEN Some("report.md") ELSE Null])
               /\ pc' = "images"
               /\ UNCHANGED caught
          ELSE /\ caught' = Some(Wrap("Iterative search failed",
                                    Wrap("Markdown generation failed",
                                         Error(<<"write error">>))))
               /\ pc' = "catch"
               /\ UNCHANGED searchResult
  /\ UNCHANGED <<captured, captureVars, auxVars>>
  /\ UNCHANGED <<storeFaulty, docVars, task, envVars, loopVars, smsVars, roundVars, finalAnalysis,
                 htmlContent, synthesized, histVars, http>>

\* The background task stores one Image record per screenshot.
SaveImages ==
  /\ pc = "images"
  /\ \E saved \in BOOLEAN :
       /\ saved \/ Val(searchResult).screenshots # <<>>
       /\ StoreAnswer(saved)
       /\ IF saved
          THEN pc' = "html" /\ UNCHANGED caught
          ELSE pc' = "catch" /\ caught' = Some(Error(<<"image save failed">>))
  /\ UNCHANGED <<captured, captureVars, auxVars>>
  /\ UNCHANGED <<docVars, task, envVars, loopVars, smsVars, roundVars, tailVars,
                 histVars, http>>

\* ------------------------------------------------------------- rendering
\* A model output for the HTML prompt is a sequence of tokens.
FenceTokens == {"[fence html]", "[fence]"}
RootMarkers == {"<!DOCTYPE html>", "<html>"}
NominalHtmlOutput == <<"<!DOCTYPE html>", "<html>", "body", "</html>">>
HtmlOutputs ==
  { NominalHtmlOutput,
    <<"[fence html]", "<!DOCTYPE html>", "body", "[fence]">>,
    <<"body">>,
    <<"raise">> }

\* cleanHTMLContent: drop the code-fence markers; wrap the text in a
\* document shell when it contains neither root marker.
cleanHTMLContent(tokens) ==
  LET cleaned == SelectSeq(tokens, LAMBDA t : t \notin FenceTokens)
  IN IF \A i \in 1..Len(cleaned) : cleaned[i] \notin RootMarkers
     THEN <<"<!DOCTYPE html>", "<html>">> \o cleaned \o <<"</html>">>
     ELSE cleaned

\* generateHTMLReport: Some(document), or Null when the model call throws.
generateHTMLReport(out) ==
  IF out = <<"raise">> THEN Null ELSE Some(cleanHTMLContent(out))

GenerateHTML ==
  /\ pc = "html"
  /\ \E out \in HtmlOutputs :
       /\ Answer(out = NominalHtmlOutput)
       /\ htmlContent' = generateHTMLReport(out)
  /\ IF IsNull(htmlContent')
     THEN /\ caught' = Some(Wrap("HTML generation failed", Error(<<"model error">>)))
          /\ pc' = "catch"
     ELSE /\ pc' = "complete"
          /\ UNCHANGED caught
  /\ UNCHANGED <<captured, captureVars, auxVars>>
  /\ UNCHANGED <<storeFaulty, docVars, task, envVars, loopVars, smsVars, roundVars, searchResult,
                 finalAnalysis, synthesized, histVars, http>>

\* ------------------------------------------------------- terminal writes
\* A completed update that leaves out the analysis result.
CompletedReportNoAnalysis(doc, result, html) ==
  [doc EXCEPT !.status = "completed",
              !.htmlContent = html,
              !.searchRounds = result.searchRounds,
              !.screenshots = result.screenshots,
              !.markdownReport = result.markdownReport]

\* Report.findByIdAndUpdate(report._id, {status: 'completed', ...}).
CompletedReport(doc, result, html) ==
  [doc EXCEPT !.status = "completed",
              !.htmlContent = html,
              !.searchRounds = result.searchRounds,
              !.analysisResult = Some(result.analysisResult),
              !.screenshots = result.screenshots,
              !.markdownReport = result.markdownReport]

\* A failed update that sets the status and forgets the error.
FailedReportStatusOnly(doc, e) == [doc EXCEPT !.status = "failed"]

\* Report.findByIdAndUpdate(report._id, {status: 'failed', error: {...}}).
FailedReport(doc, e) ==
  [doc EXCEPT !.status = "failed",
              !.error = Some([message |-> e.message, code |-> "SEARCH_FAILED"])]

\* A raising store write: driver errors carry a code of their own.
StoreError == [message |-> <<"store write failed">>, code |-> Some("ECONNRESET")]

\* An update with upsert set: a document that is gone is inserted anew.
UpdateDocUpserting(doc, updated) == IF IsNull(doc) THEN Some(NewReport) ELSE Some(updated)

\* findByIdAndUpdate on a document that is gone updates nothing.
UpdateDoc(doc, updated) == IF IsNull(doc) THEN Null ELSE Some(updated)

\* A completed update whose raising write has been applied all the same, so
\* that the catch block then overwrites a completed record.
CompleteUpdateApplied ==
  /\ pc = "complete"
  /\ \E written \in BOOLEAN :
       /\ StoreAnswer(written)
       /\ report' = UpdateDoc(report,
                       CompletedReport(Val(report), Val(searchResult), htmlContent))
       /\ IF written
          THEN pc' = "done" /\ UNCHANGED caught
          ELSE pc' = "catch" /\ caught' = Some(StoreError)
  /\ UNCHANGED <<captured, captureVars, auxVars>>
  /\ UNCHANGED <<search, task, envVars, loopVars, smsVars, roundVars, tailVars,
                 histVars, http>>

CompleteUpdate ==
  /\ pc = "complete"
  /\ \E written \in BOOLEAN :
       /\ StoreAnswer(written)
       /\ IF written
          THEN /\ report' = UpdateDoc(report,
                              CompletedReport(Val(report), Val(searchResult), htmlContent))
               /\ pc' = "done"
               /\ UNCHANGED caught
          ELSE /\ caught' = Some(StoreError)
               /\ pc' = "catch"
               /\ UNCHANGED report
  /\ UNCHANGED <<captured, captureVars, auxVars>>
  /\ UNCHANGED <<search, task, envVars, loopVars, smsVars, roundVars, tailVars,
                 histVars, http>>

\* The catch block of the background task.  When its own write raises,
\* nothing handles the rejection and the task ends.
FailUpdate ==
  /\ pc = "catch" /\ task = "iterative"
  /\ \E written \in BOOLEAN :
       /\ StoreAnswer(written)
       /\ IF written
          THEN /\ report' = UpdateDoc(report, FailedReport(Val(report), Val(caught)))
               /\ pc' = "done"
          ELSE /\ pc' = "crashed"
               /\ UNCHANGED report
  /\ UNCHANGED <<captured, captureVars, auxVars>>
  /\ UNCHANGED <<search, task, envVars, loopVars, smsVars, roundVars, tailVars,
                 caught, histVars, http>>

\* ------------------------------------------------------ simple search job
DefaultMaxResults == 10

\* POST /api/search: validate, create the Search in status pending,
\* respond 202 and call executeSearch, which runs up to its first await.
SubmitSearch ==
  /\ pc = "idle"
  /\ \E t \in TopicInputs, mx \in 0..MaxResultsOpt,
        srcs \in SUBSET {"google", "wikipedia"}, ic \in BOOLEAN, saved \in BOOLEAN :
     /\ submitted' = Some([route |-> "search", topic |-> t])
     /\ IF ~SearchTopicValid(t)
       THEN /\ http' = Some(Response("search", 400, "invalid request"))
            /\ pc' = "rejected"
            /\ UNCHANGED <<search, task, opts, deviations, storeFaulty>>
       ELSE /\ StoreAnswer(saved)
            /\ IF saved
               THEN /\ search' = Some(NewSearch)
                    /\ opts' = [NoOpts EXCEPT
                                  !.maxResults = IF mx = 0 THEN DefaultMaxResults ELSE mx,
                                  !.sources = srcs,
                                  !.includeContent = ic]
                    /\ task' = "simple"
                    /\ pc' = "markSearching"
                    /\ http' = Some(Response("search", 202, "pending"))
               ELSE /\ http' = Some(Response("search", 500, "save failed"))
                    /\ pc' = "rejected"
                    /\ UNCHANGED <<search, task, opts>>
  /\ UNCHANGED <<captured, captureVars, fnVars, polled>>
  /\ UNCHANGED <<report, googleConfigured, wikipediaReachable, loopVars, smsVars,
                 roundVars, tailVars,
                 caught, histVars>>

\* executeSearch: status searching, then the call of searchMultipleSources.
MarkSearching ==
  /\ pc = "markSearching"
  /\ \E written \in BOOLEAN :
       /\ StoreAnswer(written)
       /\ IF written
          THEN /\ search' = UpdateDoc(search, [Val(search) EXCEPT !.status = "searching"])
               /\ CallSearch(Topic, opts.maxResults, opts.sources)
               /\ pc' = "searching"
               /\ UNCHANGED caught
          ELSE /\ caught' = Some(StoreError)
               /\ pc' = "catch"
               /\ UNCHANGED <<search, smsVars>>
  /\ UNCHANGED <<captured, captureVars, auxVars>>
  /\ UNCHANGED <<report, task, envVars, loopVars, roundVars, tailVars, histVars, http>>

\* executeSearch: store the results, status processing.
StoreResults ==
  /\ pc = "storeResults"
  /\ \E written \in BOOLEAN :
       /\ StoreAnswer(written)
       /\ IF written
          THEN /\ search' = UpdateDoc(search,
                              [Val(search) EXCEPT !.status = "processing",
                                                  !.searchResults = enhancedResults])
               /\ pc' = "process"
               /\ UNCHANGED caught
          ELSE /\ caught' = Some(StoreError)
               /\ pc' = "catch"
               /\ UNCHANGED search
  /\ UNCHANGED <<captured, captureVars, auxVars>>
  /\ UNCHANGED <<report, task, envVars, loopVars, smsVars, roundVars, tailVars,
                 histVars, http>>

\* executeSearch: the AI processing of the results.
ProcessResults ==
  /\ pc = "process"
  /\ \E out \in AnalysisOutputs :
       /\ Answer(out = NominalAnalysisOutput)
       /\ finalAnalysis' = analyzeSearchResults(out)
  /\ synthesized' = Some(enhancedResults)
  /\ IF IsNull(finalAnalysis')
     THEN /\ caught' = Some(Wrap("AI analysis failed", Error(<<"model error">>)))
          /\ pc' = "catch"
     ELSE /\ pc' = "storeProcessed"
          /\ UNCHANGED caught
  /\ UNCHANGED <<captured, captureVars, auxVars>>
  /\ UNCHANGED <<storeFaulty, docVars, task, envVars, loopVars, smsVars, roundVars, searchResult,
                 htmlContent, histVars, http>>

\* A completed update whose raising write has been applied all the same, so
\* that the catch block then marks a completed search as failed.
StoreProcessedApplied ==
  /\ pc = "storeProcessed"
  /\ \E written \in BOOLEAN :
       /\ StoreAnswer(written)
       /\ search' = UpdateDoc(search,
                       [Val(search) EXCEPT !.status = "completed",
                                           !.processedContent = finalAnalysis])
       /\ IF written
          THEN pc' = "done" /\ UNCHANGED caught
          ELSE pc' = "catch" /\ caught' = Some(StoreError)
  /\ UNCHANGED <<captured, captureVars, auxVars>>
  /\ UNCHANGED <<report, task, envVars, loopVars, smsVars, roundVars, tailVars,
                 histVars, http>>

\* executeSearch: store the processed content, status completed.
StoreProcessed ==
  /\ pc = "storeProcessed"
  /\ \E written \in BOOLEAN :
       /\ StoreAnswer(written)
       /\ IF written
          THEN /\ search' = UpdateDoc(search,
                              [Val(search) EXCEPT !.status = "completed",
                                                  !.processedContent = finalAnalysis])
               /\ pc' = "done"
               /\ UNCHANGED caught
          ELSE /\ caught' = Some(StoreError)
               /\ pc' = "catch"
               /\ UNCHANGED search
  /\ UNCHANGED <<captured, captureVars, auxVars>>
  /\ UNCHANGED <<report, task, envVars, loopVars, smsVars, roundVars, tailVars,
                 histVars, http>>

\* error.code || 'SEARCH_ERROR'
ErrorCode(e) == IF IsNull(e.code) THEN "SEARCH_ERROR" ELSE Val(e.code)

FailedSearch(doc, e) ==
  [doc EXCEPT !.status = "failed",
              !.error = Some([message |-> e.message, code |-> ErrorCode(e)])]

\* The catch block of executeSearch; a raise of its own write is unhandled.
FailSearch ==
  /\ pc = "catch" /\ task = "simple"
  /\ \E written \in BOOLEAN :
       /\ StoreAnswer(written)
       /\ IF written
          THEN /\ search' = UpdateDoc(search, FailedSearch(Val(search), Val(caught)))
               /\ pc' = "done"
          ELSE /\ pc' = "crashed"
               /\ UNCHANGED search
  /\ UNCHANGED <<captured, captureVars, auxVars>>
  /\ UNCHANGED <<report, task, envVars, loopVars, smsVars, roundVars, tailVars,
                 caught, histVars, http>>

\* -------------------------------------------------------- read handlers
\* Largest view count followed; further result fetches are not explored.
MaxViews == 1

\* A status body that reports the round the running task has reached in
\* memory instead of the rounds stored in the record.
StatusBodyLive(doc) ==
  [status |-> doc.status,
   currentRound |-> Len(searchRounds),
   totalRounds |-> StatusTotalRounds,
   completed |-> doc.status = "completed",
   failed |-> doc.status = "failed",
   error |-> IF doc.status = "failed" /\ ~IsNull(doc.error) THEN doc.error ELSE Null]

\* GET /:reportId/status
StatusBody(doc) ==
  [status |-> doc.status,
   currentRound |-> Len(doc.searchRounds),
   totalRounds |-> StatusTotalRounds,
   completed |-> doc.status = "completed",
   failed |-> doc.status = "failed",
   error |-> IF doc.status = "failed" /\ ~IsNull(doc.error) THEN doc.error ELSE Null]

\* .select('reportId status searchRounds markdownReport metadata ... error'):
\* the fields of the record the status route loads.
StatusSelect(doc) ==
  [status |-> doc.status, searchRounds |-> doc.searchRounds,
   markdownReport |-> doc.markdownReport, error |-> doc.error]

StatusPoll ==
  /\ ~IsNull(report)
  /\ http' = Some(Response("status", 200, StatusBody(Val(report))))
  /\ polled' = Some([doc |-> StatusSelect(Val(report)), out |-> Val(http')])
  /\ UNCHANGED <<captured, captureVars, fnVars, submitted>>
  /\ UNCHANGED <<storeFaulty, docVars, task, pc, envVars, loopVars, smsVars, roundVars, tailVars,
                 caught, deviations, histVars>>

\* reportSchema.methods.incrementViews
incrementViews(doc) == [doc EXCEPT !.views = @ + 1]

\* A readiness test that only holds back reports still being generated.
NotReadyWhileGenerating(doc) == doc.status = "generating"

\* report.status !== 'completed'
NotReady(doc) == doc.status # "completed"

\* A result handler that counts the view before it tests whether the report
\* is ready, and so writes to the record of a job that is still running.
ResultFetchCountingEveryFetch ==
  /\ ~IsNull(report)
  /\ Val(report).views < MaxViews
  /\ report' = Some(incrementViews(Val(report)))
  /\ IF NotReady(Val(report))
     THEN http' = Some(Response("result", 202, [status |-> Val(report).status]))
     ELSE http' = Some(Response("result", 200, Val(report).htmlContent))
  /\ polled' = Null
  /\ UNCHANGED <<captured, captureVars, fnVars, submitted>>
  /\ UNCHANGED <<storeFaulty, search, task, pc, envVars, loopVars, smsVars, roundVars, tailVars,
                 caught, deviations, histVars>>

\* GET /:reportId/result: 202 while the report is not completed; otherwise
\* the view count is incremented and the document is sent.
ResultFetch ==
  /\ ~IsNull(report)
  /\ IF NotReady(Val(report))
     THEN /\ http' = Some(Response("result", 202, [status |-> Val(report).status]))
          /\ UNCHANGED report
     ELSE /\ Val(report).views < MaxViews
          /\ report' = Some(incrementViews(Val(report)))
          /\ http' = Some(Response("result", 200, Val(report).htmlContent))
  /\ polled' = Null
  /\ UNCHANGED <<captured, captureVars, fnVars, submitted>>
  /\ UNCHANGED <<storeFaulty, search, task, pc, envVars, loopVars, smsVars, roundVars, tailVars,
                 caught, deviations, histVars>>


\* DELETE /api/report/:reportId: the record is looked up and removed,
\* whatever its status and whether or not its task is still running.  A
\* client deleting the record of its own job counts as a deviation of the run.
DeleteReport ==
  /\ ~IsNull(report)
  /\ Answer(FALSE)
  /\ report' = Null
  /\ http' = Some(Response("delete-report", 200, "deleted"))
  /\ polled' = Null
  /\ UNCHANGED <<captured, captureVars, fnVars, submitted>>
  /\ UNCHANGED <<storeFaulty, search, task, pc, envVars, loopVars, smsVars, roundVars, tailVars,
                 caught, histVars>>

\* DELETE /api/search/:searchId
DeleteSearch ==
  /\ ~IsNull(search)
  /\ Answer(FALSE)
  /\ search' = Null
  /\ http' = Some(Response("delete-search", 200, "deleted"))
  /\ polled' = Null
  /\ UNCHANGED <<captured, captureVars, fnVars, submitted>>
  /\ UNCHANGED <<storeFaulty, report, task, pc, envVars, loopVars, smsVars, roundVars, tailVars,
                 caught, histVars>>

\* Steps of the background job: the setImmediate callback of the iterative
\* route, and executeSearch of the search route.
JobStep ==
  \/ BeginTask \/ StartRound \/ ProviderSettles \/ SearchReturns
  \/ EnhanceResults \/ CaptureOne \/ AnalyzeRound \/ RecordRound \/ ExitLoop
  \/ Synthesize \/ ReturnResult \/ SaveImages \/ GenerateHTML
  \/ CompleteUpdate \/ FailUpdate
  \/ MarkSearching \/ StoreResults \/ ProcessResults \/ StoreProcessed \/ FailSearch

\* --------------------------------------------------------------- properties
Terminal(doc) == ~IsNull(doc) /\ Val(doc).status \in {"completed", "failed"}
Running == task # "none" /\ pc \notin {"idle", "rejected", "done", "crashed"}
Max(a, b) == IF a >= b THEN a ELSE b
LastAnalysis == analyses[Len(analyses)]

\* C1: the round loop stops before the round budget exactly when a round's
\* analysis yields a null next query: after a round whose analysis returned
\* nextQuery = null no further round is started, and the loop is left with
\* rounds remaining only after an analysis whose nextQuery was null.
C1_LoopStopsExactlyOnNullNextQuery ==
  /\ \A r \in 1..Len(analyses) :
       analyses[r].nextQuery = <<>> => <<r + 1, "search">> \notin started
  /\ (pc = "synthesize" /\ Len(searchRounds) < opts.maxRounds)
       => (Len(analyses) > 0 /\ LastAnalysis.nextQuery = <<>>)

\* C2: while the iterative job is running, the stored job record that a
\* status poll reads holds as many rounds as the job has finished, the
\* latest of them being the round finished last.
C2_ProgressVisibleMidFlight ==
  (task = "iterative" /\ Running /\ ~IsNull(report))
    => /\ Len(Val(report).searchRounds) = Len(searchRounds)
       /\ Len(searchRounds) > 0
            => Val(report).searchRounds[Len(searchRounds)] = searchRounds[Len(searchRounds)]

C5_FailedHasError ==
  /\ (~IsNull(report) /\ Val(report).status = "failed")
       => /\ ~IsNull(Val(report).error)
          /\ Val(Val(report).error).message # <<>>
          /\ Val(Val(report).error).code # ""
  /\ (~IsNull(search) /\ Val(search).status = "failed")
       => /\ ~IsNull(Val(search).error)
          /\ Val(Val(search).error).message # <<>>
          /\ Val(Val(search).error).code # ""

C5_Witness ==
  /\ ~IsNull(report) /\ Val(report).status = "failed"
  /\ ~IsNull(caught) /\ Val(Val(report).error).message = Val(caught).message

\* C6 (as stated): the number of rounds recorded for an iterative job, in the
\* round history being built and in the stored record, is at most the
\* configured maxRounds.
C6_RoundsWithinMaxRounds ==
  task = "iterative"
    => /\ Len(searchRounds) <= opts.maxRounds
       /\ ~IsNull(report) => Len(Val(report).searchRounds) <= opts.maxRounds

\* C6 (amended): the number of rounds recorded for an iterative job, in the
\* round history being built and in the stored record, is at most the
\* configured maxRounds, and is zero when the configured maxRounds is negative.
C6_RoundsWithinBudget ==
  task = "iterative"
    => /\ Len(searchRounds) <= Max(0, opts.maxRounds)
       /\ ~IsNull(report) => Len(Val(report).searchRounds) <= Max(0, opts.maxRounds)

C6_Witness ==
  /\ task = "iterative" /\ opts.maxRounds = DefaultMaxRounds
  /\ ~IsNull(report) /\ Len(Val(report).searchRounds) = opts.maxRounds

\* C7: a job whose background task has ended has a record in status
\* completed or failed, and when an exception reached the task's catch block
\* the record is failed and carries the captured message.
C7_EndedJobIsTerminal ==
  /\ (task = "iterative" /\ pc \in {"done", "crashed"})
       => /\ Terminal(report)
          /\ ~IsNull(caught)
               => /\ Val(report).status = "failed"
                  /\ Val(Val(report).error).message = Val(caught).message
  /\ (task = "simple" /\ pc \in {"done", "crashed"})
       => /\ Terminal(search)
          /\ ~IsNull(caught)
               => /\ Val(search).status = "failed"
                  /\ Val(Val(search).error).message = Val(caught).message

\* C8: rounds run strictly one after another: a step of round N+1 has begun
\* only when the analyses of rounds 1..N have returned, so at most one round
\* is in progress at any time.
C8_RoundsSequential ==
  /\ \A s \in started : Len(analyses) >= s[1] - 1
  /\ Cardinality({s[1] : s \in {t \in started : Len(analyses) < t[1]}}) <= 1

C8_Witness ==
  /\ <<2, "enhance">> \in started
  /\ Len(analyses) = 1

\* C9: the query of round 1 is the topic, and the query of every later
\* executed round N+1 is the nextQuery that the analysis of round N returned.
C9_QueryIsPreviousNextQuery ==
  \A i \in 1..Len(searchRounds) :
    searchRounds[i].query = IF i = 1 THEN Topic ELSE analyses[i - 1].nextQuery

\* Results of the provider calls of the running searchMultipleSources call
\* that returned, in provider order.
SuccessfulResults(source) ==
  LET e == SelectSeq(provided, LAMBDA p : p.source = source /\ p.response.ok)
  IN IF e = <<>> THEN <<>> ELSE e[1].response.results

\* C10: whichever of the enabled providers fail, searchMultipleSources does
\* not raise, and what it returns is the merged, deduplicated, ranked and
\* truncated list of the results of the providers that returned.
C10_FailedProvidersContributeNothing ==
  /\ pc # "searching"
       => roundResults =
            Slice(sortResultsByRelevance(
                    deduplicateResults(SuccessfulResults("google")
                                         \o SuccessfulResults("wikipedia")),
                    smsQuery),
                  smsMaxResults)
  /\ ~IsNull(caught)
       => \A i \in 1..Len(Val(caught).message) : Val(caught).message[i] # "Search failed"

C10_Witness ==
  /\ pc \in {"enhance", "storeResults"}
  /\ \E i \in 1..Len(provided) : ~provided[i].response.ok
  /\ \E i \in 1..Len(provided) : provided[i].response.ok
  /\ roundResults # <<>>

\* Every provider call of the search call made last has raised.
AllProvidersFailed ==
  /\ Len(provided) > 0 /\ Len(provided) = Len(searchPromises)
  /\ \A i \in 1..Len(provided) : ~provided[i].response.ok

\* Number of the round whose search call was made last.
LastSearched == Cardinality({s \in started : s[2] = "search"})

\* C11: when every provider fails in a round, the round completes with an
\* empty results list, no screenshot is attempted, the round analysis is
\* invoked on the empty input and yields a finding, and the round is recorded
\* instead of the job failing.
C11_AllProvidersFailRoundCompletes ==
  (task = "iterative" /\ AllProvidersFailed /\ pc # "searching")
    => /\ roundResults = <<>>
       /\ pc # "capture" /\ <<LastSearched, "capture">> \notin started
       /\ pc \notin {"enhance", "analyze"}
            => /\ Len(analyses) >= LastSearched
               /\ ~analyses[LastSearched].isNull
               /\ analyses[LastSearched].keyFindings # ""
       /\ pc \notin {"enhance", "analyze", "record"}
            => /\ Len(searchRounds) >= LastSearched
               /\ searchRounds[LastSearched].results = <<>>
               /\ searchRounds[LastSearched].screenshots = <<>>

\* The provider outcomes of the search call made last, put back in the order
\* in which the calls were issued.
OutcomesInCallOrder ==
  [i \in 1..Len(Providers) |->
     LET e == SelectSeq(provided, LAMBDA p : p.source = Providers[i])
     IN IF e = <<>> THEN <<>> ELSE e[1].response.results]

RECURSIVE Flatten(_)
Flatten(seqs) == IF seqs = <<>> THEN <<>> ELSE Head(seqs) \o Flatten(Tail(seqs))

\* C12: for fixed provider responses, the list searchMultipleSources returns
\* is the same whatever the order in which the provider calls completed: it
\* is the pipeline applied to the responses taken in call order.
C12_ResultIndependentOfArrivalOrder ==
  pc # "searching"
    => roundResults =
         Slice(sortResultsByRelevance(deduplicateResults(Flatten(OutcomesInCallOrder)),
                                      smsQuery),
               smsMaxResults)

C12_Witness ==
  /\ pc \in {"enhance", "storeResults"}
  /\ Len(provided) = 2
  /\ provided[1].source = "wikipedia" /\ provided[1].response.ok
  /\ provided[2].source = "google" /\ provided[2].response.ok
  /\ Len(roundResults) >= 2

UniqueUrls(results) ==
  \A i, j \in 1..Len(results) : results[i].url = results[j].url => i = j

\* C13: in every round a job has recorded, in the round history being built
\* and in the stored record, no two entries of the round's results list have
\* the same URL.
C13_RoundResultsHaveUniqueUrls ==
  /\ \A r \in 1..Len(searchRounds) : UniqueUrls(searchRounds[r].results)
  /\ ~IsNull(report)
       => \A r \in 1..Len(Val(report).searchRounds) :
            UniqueUrls(Val(report).searchRounds[r].results)

C13_Witness ==
  /\ Len(searchRounds) = 1 /\ pc = "loop"
  /\ \A i \in 1..Len(provided) : provided[i].response.ok
  /\ Len(provided) = 2
  /\ Len(Flatten(OutcomesInCallOrder)) > Len(searchRounds[1].results)

\* ------------------------------------------- the list functions on their own
\* Arguments for deduplicateResults and sortResultsByRelevance: lists of
\* entries over two URLs and two sources, with contents of length 0..2 and
\* titles that do or do not contain the query term.
ListEntries ==
  { Result(src, url, ttl, {}, c) :
      src \in {"google", "wikipedia"}, url \in {"u1", "u2"}, ttl \in {{}, {"ai"}},
      c \in 0..2 }

RECURSIVE ListsUpTo(_)
ListsUpTo(n) ==
  IF n = 0 THEN {<<>>}
  ELSE LET shorter == ListsUpTo(n - 1)
       IN shorter \cup {Append(l, e) : l \in {x \in shorter : Len(x) = n - 1},
                                       e \in ListEntries}

ListInit ==
  /\ report = Null /\ search = Null
  /\ task = "none" /\ pc = "list"
  /\ opts = NoOpts
  /\ googleConfigured = TRUE /\ wikipediaReachable = TRUE
  /\ round = 0 /\ currentQuery = <<>> /\ searchRounds = <<>>
  /\ allResults \in ListsUpTo(MaxLen) /\ screenshots = <<>>
  /\ searchPromises = <<>> /\ smsQuery = Topic /\ smsMaxResults = 0
  /\ roundResults = <<>> /\ enhancedResults = <<>> /\ roundScreenshots = <<>>
  /\ toCapture = <<>> /\ roundAnalysis = NoAnalysis
  /\ searchResult = Null /\ finalAnalysis = Null /\ htmlContent = Null
  /\ synthesized = Null
  /\ caught = Null /\ deviations = 0 /\ storeFaulty = FALSE
  /\ started = {} /\ analyses = <<>> /\ provided = <<>>
  /\ http = Null
  /\ captured = <<>>
  /\ capUrl = "" /\ attempt = 0 /\ capLog = <<>> /\ capResult = Null
  /\ AuxIdle

\* uniqueResults: this.deduplicateResults(allResults)
ApplyDeduplicate ==
  /\ pc = "list"
  /\ roundResults' = deduplicateResults(allResults)
  /\ pc' = "deduplicated"
  /\ UNCHANGED <<captured, captureVars, auxVars>>
  /\ UNCHANGED <<docVars, task, envVars, loopVars, smsVars, enhancedResults,
                 roundScreenshots, toCapture, roundAnalysis, tailVars, caught,
                 deviations, storeFaulty, histVars, http>>

\* this.sortResultsByRelevance(uniqueResults, query)
ApplySort ==
  /\ pc = "list"
  /\ roundResults' = sortResultsByRelevance(allResults, smsQuery)
  /\ pc' = "sorted"
  /\ UNCHANGED <<captured, captureVars, auxVars>>
  /\ UNCHANGED <<docVars, task, envVars, loopVars, smsVars, enhancedResults,
                 roundScreenshots, toCapture, roundAnalysis, tailVars, caught,
                 deviations, storeFaulty, histVars, http>>

ListNext ==
  \/ ApplyDeduplicate
  \/ ApplySort

ListSpec == ListInit /\ [][ListNext]_vars

\* Positions of the entries of a list that carry a URL.
Group(list, url) == {i \in 1..Len(list) : list[i].url = url}
FirstOf(S) == CHOOSE i \in S : \A j \in S : i <= j
\* The earliest of the longest entries of a URL's group.
Kept(list, url) ==
  LET g == Group(list, url)
  IN FirstOf({i \in g : \A j \in g : list[i].content >= list[j].content})

\* C14: deduplicateResults returns one entry per URL of its argument: the
\* entry of the URL's group with the longest content, the earliest of them
\* when lengths tie, and the entries are in the order of the first
\* occurrences of their URLs.
C14_DeduplicateKeepsLongestFirst ==
  pc = "deduplicated"
    => /\ UniqueUrls(roundResults)
       /\ {roundResults[i].url : i \in 1..Len(roundResults)}
            = {allResults[i].url : i \in 1..Len(allResults)}
       /\ \A i \in 1..Len(roundResults) :
            roundResults[i] = allResults[Kept(allResults, roundResults[i].url)]
       /\ \A i, j \in 1..Len(roundResults) :
            i < j => FirstOf(Group(allResults, roundResults[i].url))
                       < FirstOf(Group(allResults, roundResults[j].url))

C14_Witness ==
  /\ pc = "deduplicated" /\ Len(allResults) = 3
  /\ Group(allResults, "u1") = {1, 2, 3}
  /\ allResults[1].content = 1 /\ allResults[2].content = 2 /\ allResults[3].content = 2
  /\ allResults[2] # allResults[3]
  /\ roundResults = <<allResults[2]>>

\* The merged and deduplicated list of the search call made last.
Deduplicated == deduplicateResults(Flatten(OutcomesInCallOrder))
PositionIn(list, url) == FirstOf(Group(list, url))
NonIncreasing(results) ==
  \A i, j \in 1..Len(results) :
    i < j => results[i].relevanceScore >= results[j].relevanceScore

\* C15: the results list of every round is ordered by non-increasing
\* relevance score, the score being the one computed for the round's query,
\* and entries of equal score are in the order they had after merge and
\* deduplication; the content enhancement keeps that order.
C15_RoundResultsSortedStable ==
  /\ \A r \in 1..Len(searchRounds) : NonIncreasing(searchRounds[r].results)
  /\ ~IsNull(report)
       => \A r \in 1..Len(Val(report).searchRounds) :
            NonIncreasing(Val(report).searchRounds[r].results)
  /\ pc # "searching"
       => /\ NonIncreasing(roundResults)
          /\ \A i \in 1..Len(roundResults) :
               roundResults[i].relevanceScore = RelevanceScore(roundResults[i], smsQuery)
          /\ \A i, j \in 1..Len(roundResults) :
               (i < j /\ roundResults[i].relevanceScore = roundResults[j].relevanceScore)
                 => PositionIn(Deduplicated, roundResults[i].url)
                      < PositionIn(Deduplicated, roundResults[j].url)
  /\ pc \in {"capture", "analyze", "record", "storeResults"}
       => /\ Len(enhancedResults) = Len(roundResults)
          /\ \A i \in 1..Len(roundResults) :
               /\ enhancedResults[i].url = roundResults[i].url
               /\ enhancedResults[i].relevanceScore = roundResults[i].relevanceScore

C15_Witness ==
  /\ task = "iterative" /\ pc = "loop" /\ Len(searchRounds) = 1
  /\ Len(searchRounds[1].results) >= 3
  /\ searchRounds[1].results[1].relevanceScore = searchRounds[1].results[2].relevanceScore
  /\ searchRounds[1].results[2].relevanceScore > searchRounds[1].results[3].relevanceScore

\* C16: whatever captures or stores of a round's screenshots fail, the
\* round's results list stays the one the content enhancement produced: no
\* step of the capture loop or after it changes the list, and the round is
\* recorded with exactly that list.
C16_CaptureFailuresLeaveResults ==
  [][/\ pc \in {"capture", "analyze", "record"}
          => /\ enhancedResults' = enhancedResults
             /\ roundResults' = roundResults
     /\ pc \in {"capture", "analyze"}
          => /\ searchRounds' = searchRounds
             /\ allResults' = allResults
     /\ (pc = "record" /\ pc' = "loop")
          => /\ searchRounds'[Len(searchRounds')].results = enhancedResults
             /\ allResults' = allResults \o enhancedResults]_vars

C16_Witness ==
  /\ task = "iterative" /\ pc = "loop" /\ Len(searchRounds) = 1
  /\ <<1, "capture">> \in started
  /\ Len(searchRounds[1].results) = 4
  /\ Len(searchRounds[1].screenshots) = 2

Urls(list) == [i \in 1..Len(list) |-> list[i].url]
SavedUrls == Urls(SelectSeq(captured, LAMBDA c : c.outcome = "saved"))

\* C17: a round's screenshots list holds exactly the URLs, among the round's
\* first three results, whose capture and storage both succeeded, in result
\* order; a URL whose capture or storage failed is absent; the capture loop
\* visits the first three results and hands over to the round analysis
\* instead of raising.
C17_ScreenshotsAreTheSavedOnes ==
  /\ pc \in {"capture", "analyze", "record"}
       => /\ Urls(roundScreenshots) = SavedUrls
          /\ Urls(captured) = SubSeq(Urls(enhancedResults), 1, Len(captured))
          /\ Len(captured) <= ScreenshotTopN
          /\ \A i \in 1..Len(captured) :
               captured[i].outcome # "saved"
                 => \A k \in 1..Len(roundScreenshots) :
                      roundScreenshots[k].url # captured[i].url
  /\ (pc \in {"analyze", "record"} /\ opts.includeScreenshots)
       => Len(captured) = Min(ScreenshotTopN, Len(enhancedResults))
  /\ (task = "iterative" /\ pc = "loop" /\ Len(searchRounds) > 0)
       => Urls(searchRounds[Len(searchRounds)].screenshots) = SavedUrls
  /\ (task = "iterative" /\ pc = "catch" /\ Len(captured) > 0 /\ round <= opts.maxRounds)
       => Len(analyses) >= round

C17_Witness ==
  /\ task = "iterative" /\ pc = "loop" /\ Len(searchRounds) = 1
  /\ Len(searchRounds[1].results) = 4
  /\ Len(captured) = 3 /\ captured[2].outcome = "captureFailed"
  /\ Urls(searchRounds[1].screenshots)
       = <<searchRounds[1].results[1].url, searchRounds[1].results[3].url>>

\* ------------------------------------------------- captureScreenshot alone
\* URLs as isValidUrl sees them: whether new URL(url) parses, and the protocol.
CaptureUrls ==
  { [parses |-> TRUE, protocol |-> "http:"], [parses |-> TRUE, protocol |-> "https:"],
    [parses |-> TRUE, protocol |-> "ftp:"], [parses |-> FALSE, protocol |-> ""] }

\* A validation that accepts every URL that parses, whatever its scheme.
isValidUrlAnyScheme(url) == url.parses

\* MCPScreenshotService.isValidUrl
isValidUrl(url) == url.parses /\ url.protocol \in {"http:", "https:"}

\* What takeMCPScreenshot can do: return a buffer (possibly empty), return
\* nothing, or throw.
TakeOutcomes ==
  { [kind |-> "buffer", length |-> n] : n \in 0..MaxBytes }
    \cup { [kind |-> "missing", length |-> 0], [kind |-> "throws", length |-> 0] }

\* An emptiness test that only looks for a missing value.
IsEmptyScreenshotMissingOnly(out) == out.kind = "missing"

\* !screenshot || screenshot.length === 0
IsEmptyScreenshot(out) == out.kind = "missing" \/ out.length = 0

\* How an outcome of takeMCPScreenshot reads in the log.
Describe(out) ==
  IF out.kind = "buffer" /\ out.length = 0 THEN "empty" ELSE out.kind

Event(kind, n, detail, ms) ==
  [kind |-> kind, attempt |-> n, detail |-> detail, ms |-> ms]

jobVars ==
  <<docVars, task, envVars, loopVars, smsVars, roundVars, tailVars, caught,
    deviations, storeFaulty, histVars, http, captured>>
mainVars == <<jobVars, auxVars>>

CaptureInit ==
  /\ report = Null /\ search = Null
  /\ task = "none" /\ pc = "capAttempt"
  /\ opts = NoOpts
  /\ googleConfigured = TRUE /\ wikipediaReachable = TRUE
  /\ round = 0 /\ currentQuery = <<>> /\ searchRounds = <<>>
  /\ allResults = <<>> /\ screenshots = <<>>
  /\ searchPromises = <<>> /\ smsQuery = <<>> /\ smsMaxResults = 0
  /\ roundResults = <<>> /\ enhancedResults = <<>> /\ roundScreenshots = <<>>
  /\ toCapture = <<>> /\ roundAnalysis = NoAnalysis
  /\ searchResult = Null /\ finalAnalysis = Null /\ htmlContent = Null
  /\ synthesized = Null
  /\ caught = Null /\ deviations = 0 /\ storeFaulty = FALSE
  /\ started = {} /\ analyses = <<>> /\ provided = <<>>
  /\ http = Null
  /\ captured = <<>>
  /\ capUrl \in CaptureUrls /\ attempt = 1 /\ capLog = <<>> /\ capResult = Null
  /\ AuxIdle

\* Loop test passed; the attempt begins with the validation of the URL.
ValidateUrl ==
  /\ pc = "capAttempt" /\ attempt <= MaxRetries
  /\ IF isValidUrl(capUrl)
     THEN /\ capLog' = Append(capLog, Event("validate", attempt, "valid", 0))
          /\ pc' = "capTake"
     ELSE /\ capLog' = Append(capLog, Event("validate", attempt, "invalid", 0))
          /\ pc' = "capCatch"
  /\ UNCHANGED <<mainVars, capUrl, attempt, capResult>>

\* await this.takeMCPScreenshot(url, mergedOptions), the emptiness test and
\* the return.
TakeScreenshot ==
  /\ pc = "capTake"
  /\ \E out \in TakeOutcomes :
       IF out.kind = "throws" \/ IsEmptyScreenshot(out)
       THEN /\ capLog' = Append(capLog, Event("take", attempt, Describe(out), 0))
            /\ pc' = "capCatch"
            /\ UNCHANGED capResult
       ELSE /\ capLog' = capLog \o <<Event("take", attempt, Describe(out), 0),
                                     Event("return", attempt, "bytes", 0)>>
            /\ capResult' = Some([returned |-> TRUE, length |-> out.length])
            /\ pc' = "capReturned"
  /\ UNCHANGED <<mainVars, capUrl, attempt>>

\* A catch block that waits the same base delay after every failed attempt,
\* the last one included.
CatchAttemptFlatDelay ==
  /\ pc = "capCatch"
  /\ capLog' = capLog \o <<Event("fail", attempt, capLog[Len(capLog)].detail, 0),
                           Event("delay", attempt, "wait", RetryDelay)>>
  /\ attempt' = attempt + 1
  /\ pc' = "capAttempt"
  /\ UNCHANGED <<mainVars, capUrl, capResult>>

\* The catch block of an attempt: remember the error, wait unless this was
\* the last attempt, attempt++.
CatchAttempt ==
  /\ pc = "capCatch"
  /\ capLog' =
       IF attempt < MaxRetries
       THEN capLog \o <<Event("fail", attempt, capLog[Len(capLog)].detail, 0),
                        Event("delay", attempt, "wait", RetryDelay * attempt)>>
       ELSE Append(capLog, Event("fail", attempt, capLog[Len(capLog)].detail, 0))
  /\ attempt' = attempt + 1
  /\ pc' = "capAttempt"
  /\ UNCHANGED <<mainVars, capUrl, capResult>>

\* Loop test failed: throw 'Screenshot capture failed'.
GiveUp ==
  /\ pc = "capAttempt" /\ ~(attempt <= MaxRetries)
  /\ capLog' = Append(capLog, Event("raise", attempt, "Screenshot capture failed", 0))
  /\ capResult' = Some([returned |-> FALSE, length |-> 0])
  /\ pc' = "capRaised"
  /\ UNCHANGED <<mainVars, capUrl, attempt>>

CaptureNext ==
  \/ ValidateUrl
  \/ TakeScreenshot
  \/ CatchAttempt
  \/ GiveUp

CaptureSpec == CaptureInit /\ [][CaptureNext]_vars

EventsOf(kind) == { i \in 1..Len(capLog) : capLog[i].kind = kind }

\* C18: captureScreenshot makes at most three attempts, returns at the first
\* success with nothing after it, waits attempt x 1000 ms after a failed
\* first or second attempt and not after the third, and raises only after
\* three failed attempts.
C18_ThreeAttemptsWithGrowingDelay ==
  /\ \A i \in 1..Len(capLog) : capLog[i].kind # "raise" => capLog[i].attempt \in 1..3
  /\ Cardinality(EventsOf("validate")) <= 3
  /\ \A i, j \in EventsOf("validate") : capLog[i].attempt = capLog[j].attempt => i = j
  /\ \A i \in EventsOf("return") :
       /\ i = Len(capLog)
       /\ pc = "capReturned"
       /\ Cardinality(EventsOf("fail")) = capLog[i].attempt - 1
  /\ \A i \in EventsOf("fail") :
       IF capLog[i].attempt < 3
       THEN /\ i < Len(capLog)
            /\ capLog[i + 1].kind = "delay"
            /\ capLog[i + 1].ms = capLog[i].attempt * 1000
       ELSE i < Len(capLog) => capLog[i + 1].kind = "raise"
  /\ \A i \in EventsOf("delay") :
       /\ i > 1 /\ capLog[i - 1].kind = "fail"
       /\ capLog[i - 1].attempt = capLog[i].attempt
  /\ \A i \in EventsOf("raise") :
       /\ i = Len(capLog)
       /\ { capLog[j].attempt : j \in EventsOf("fail") } = 1..3
  /\ pc = "capRaised" => EventsOf("raise") # {}
  /\ pc = "capReturned" => EventsOf("return") # {}

\* Three failed attempts, waits of 1000 and 2000 ms, then the error.
C18_Witness ==
  /\ pc = "capRaised"
  /\ [i \in 1..Len(capLog) |-> capLog[i].kind]
       = <<"validate", "take", "fail", "delay", "validate", "take", "fail", "delay",
           "validate", "take", "fail", "raise">>
  /\ capLog[4].ms = 1000 /\ capLog[8].ms = 2000

\* C19: an empty or missing screenshot is never returned as a success; it
\* counts as a failed attempt and the next attempt follows.
C19_EmptyScreenshotIsAFailedAttempt ==
  /\ \A i \in EventsOf("take") :
       capLog[i].detail \in {"missing", "empty"} =>
         /\ i < Len(capLog) => capLog[i + 1].kind = "fail"
         /\ i + 3 <= Len(capLog) =>
              /\ capLog[i + 3].kind = "validate"
              /\ capLog[i + 3].attempt = capLog[i].attempt + 1
  /\ \A i \in EventsOf("return") : capLog[i - 1].detail = "buffer"
  /\ (capResult # Null /\ capResult[1].returned) => capResult[1].length > 0

\* A first attempt that got an empty buffer back, and a second attempt under way.
C19_Witness ==
  /\ Len(capLog) >= 5
  /\ capLog[2].kind = "take" /\ capLog[2].detail = "empty"
  /\ capLog[5].kind = "validate" /\ capLog[5].attempt = 2

\* C20: every attempt validates the URL before capturing; for a URL that is
\* not http or https every attempt fails at the validation and
\* takeMCPScreenshot is never invoked.
C20_ValidationPrecedesEveryCapture ==
  /\ \A i \in EventsOf("take") :
       /\ i > 1 /\ capLog[i - 1].kind = "validate"
       /\ capLog[i - 1].attempt = capLog[i].attempt
       /\ capLog[i - 1].detail = "valid"
  /\ ~(capUrl.parses /\ capUrl.protocol \in {"http:", "https:"}) =>
       /\ EventsOf("take") = {}
       /\ \A i \in EventsOf("fail") : capLog[i].detail = "invalid"
       /\ capResult # Null => ~capResult[1].returned
       /\ pc = "capRaised" => Cardinality(EventsOf("validate")) = 3

\* An ftp URL rejected three times, never captured.
C20_Witness ==
  /\ capUrl.protocol = "ftp:"
  /\ pc = "capRaised"
  /\ Cardinality(EventsOf("validate")) = 3
  /\ EventsOf("take") = {}

\* ------------------------------------------ captureMultipleScreenshots alone
RECURSIVE UrlListsUpTo(_)
UrlListsUpTo(n) ==
  IF n = 0 THEN {<<>>}
  ELSE LET shorter == UrlListsUpTo(n - 1)
       IN shorter \cup {Append(l, u) : l \in {x \in shorter : Len(x) = n - 1},
                                       u \in CaptureUrls}

\* What a call of captureScreenshot ends in: bytes, or the capture error.
CaptureOutcomes(url) ==
  (IF isValidUrl(url)
   THEN { [returned |-> TRUE, length |-> n] : n \in 1..MaxBytes }
   ELSE {})
    \cup { [returned |-> FALSE, length |-> 0] }

\* An index counted within the batch only.
EntryIndexInBatch(i, index) == index

\* index: i + index
EntryIndex(i, index) == i + index

\* The object a batch promise resolves to, from the try or from the catch.
BatchEntry(url, outcome, index) ==
  [url |-> url, success |-> outcome.returned, data |-> outcome.length,
   error |-> IF outcome.returned THEN "" ELSE "Screenshot capture failed",
   index |-> index]

\* results.sort((a, b) => a.index - b.index): stable, ascending.
RECURSIVE InsertByIndex(_, _)
InsertByIndex(sorted, x) ==
  IF sorted = <<>> THEN <<x>>
  ELSE IF Head(sorted).index <= x.index
       THEN <<Head(sorted)>> \o InsertByIndex(Tail(sorted), x)
       ELSE <<x>> \o sorted

RECURSIVE SortByIndex(_, _)
SortByIndex(sorted, rest) ==
  IF rest = <<>> THEN sorted
  ELSE SortByIndex(InsertByIndex(sorted, Head(rest)), Tail(rest))

BatchInit ==
  /\ report = Null /\ search = Null
  /\ task = "none" /\ pc = "msLoop"
  /\ opts = NoOpts
  /\ googleConfigured = TRUE /\ wikipediaReachable = TRUE
  /\ round = 0 /\ currentQuery = <<>> /\ searchRounds = <<>>
  /\ allResults = <<>> /\ screenshots = <<>>
  /\ searchPromises = <<>> /\ smsQuery = <<>> /\ smsMaxResults = 0
  /\ roundResults = <<>> /\ enhancedResults = <<>> /\ roundScreenshots = <<>>
  /\ toCapture = <<>> /\ roundAnalysis = NoAnalysis
  /\ searchResult = Null /\ finalAnalysis = Null /\ htmlContent = Null
  /\ synthesized = Null
  /\ caught = Null /\ deviations = 0 /\ storeFaulty = FALSE
  /\ started = {} /\ analyses = <<>> /\ provided = <<>>
  /\ http = Null
  /\ captured = <<>>
  /\ capUrl = "" /\ attempt = 0 /\ capLog = <<>> /\ capResult = Null
  /\ msUrls \in UrlListsUpTo(MaxUrls) /\ msI = 0 /\ msPromises = <<>>
  /\ msResults = <<>> /\ msReturned = Null
  /\ ParseIdle /\ CleanIdle /\ PollIdle /\ StoreIdle /\ EnhanceIdle

batchRest == <<jobVars, captureVars, parseVars, cleanVars, pollVars, storeVars, enhVars>>

\* The loop test passes: slice the batch and start one capture per URL.
StartBatch ==
  /\ pc = "msLoop" /\ msI < Len(msUrls)
  /\ msPromises' =
       [k \in 1..Min(BatchSize, Len(msUrls) - msI) |->
          [url |-> msUrls[msI + k], settled |-> FALSE, entry |-> Null]]
  /\ pc' = "msBatch"
  /\ UNCHANGED <<batchRest, msUrls, msI, msResults, msReturned>>

\* One capture of the running batch completes, in any order: its promise
\* resolves to a success entry, or to a failure entry from the catch.
CaptureSettles ==
  /\ pc = "msBatch"
  /\ \E k \in 1..Len(msPromises) :
       /\ ~msPromises[k].settled
       /\ \E outcome \in CaptureOutcomes(msPromises[k].url) :
            msPromises' =
              [msPromises EXCEPT ![k] =
                 [url |-> @.url, settled |-> TRUE,
                  entry |-> Some(BatchEntry(@.url, outcome, EntryIndex(msI, k - 1)))]]
  /\ UNCHANGED <<batchRest, pc, msUrls, msI, msResults, msReturned>>

\* await Promise.all(batchPromises); results.push(...batchResults); the wait
\* between batches; i += batchSize.
BatchDone ==
  /\ pc = "msBatch"
  /\ \A k \in 1..Len(msPromises) : msPromises[k].settled
  /\ msResults' = msResults \o [k \in 1..Len(msPromises) |-> Val(msPromises[k].entry)]
  /\ msPromises' = <<>>
  /\ msI' = msI + BatchSize
  /\ pc' = "msLoop"
  /\ UNCHANGED <<batchRest, msUrls, msReturned>>

\* The loop test fails: return the results sorted by index.
ReturnBatch ==
  /\ pc = "msLoop" /\ ~(msI < Len(msUrls))
  /\ msReturned' = Some(SortByIndex(<<>>, msResults))
  /\ pc' = "msReturned"
  /\ UNCHANGED <<batchRest, msUrls, msI, msPromises, msResults>>

BatchNext ==
  \/ StartBatch
  \/ CaptureSettles
  \/ BatchDone
  \/ ReturnBatch

BatchSpec == BatchInit /\ [][BatchNext]_vars

\* C21: captureMultipleScreenshots never raises and returns exactly one entry
\* per input URL, entry i describing input URL i as a success with bytes or
\* as a failure with an error message, whatever the order in which the
\* captures completed.
C21_OneEntryPerUrlInInputOrder ==
  /\ pc \in {"msLoop", "msBatch", "msReturned"}
  /\ pc = "msReturned" =>
       /\ ~IsNull(msReturned)
       /\ Len(Val(msReturned)) = Len(msUrls)
       /\ \A i \in 1..Len(msUrls) :
            LET e == Val(msReturned)[i]
            IN /\ e.url = msUrls[i]
               /\ e.index = i - 1
               /\ IF e.success THEN e.data > 0 /\ e.error = ""
                  ELSE e.data = 0 /\ e.error # ""
  /\ pc # "msReturned" => IsNull(msReturned)

\* Four URLs in two batches, returned with a success and a failure among the
\* entries.
C21_Witness ==
  /\ pc = "msReturned"
  /\ Len(msUrls) = 4
  /\ msUrls[1] # msUrls[2] /\ msUrls[1] # msUrls[4]
  /\ Val(msReturned)[1].success /\ ~Val(msReturned)[2].success
  /\ Val(msReturned)[4].success

\* C22: whatever text the model returns for the round analysis,
\* analyzeRoundResults returns a record with keyFindings and a next query
\* (possibly null), and the round is recorded without the job raising.
C22_RoundAnalysisAlwaysARecord ==
  /\ \A i \in 1..Len(analyses) :
       /\ ~analyses[i].isNull
       /\ analyses[i].keyFindings # ""
  /\ ~IsNull(caught) => Val(caught).message # <<"Iterative search failed", "TypeError">>

\* The error a transport failure of the synthesis call would surface as.
SynthesisModelError == <<"Iterative search failed", "AI analysis failed", "model error">>

\* C23: when the model call of the final synthesis raises a transport error,
\* the synthesis returns the low-confidence fallback analysis and the job
\* still reaches completed; the job never becomes failed because of it.
C23_SynthesisModelErrorFallsBack ==
  /\ ~IsNull(caught) => Val(caught).message # SynthesisModelError
  /\ (~IsNull(report) /\ Val(report).status = "failed" /\ ~IsNull(Val(report).error))
       => Val(Val(report).error).message # SynthesisModelError

\* ------------------------------------------------ parseAnalysisResult alone
ParseInputs ==
  { AnalysisOutput("object", sm, kp, ct, sr, cf) :
      sm \in {"undefined", "", "text"}, kp \in {"undefined", "string", "[]", "[points]"},
      ct \in {"undefined", "[items]"}, sr \in {"undefined", "[items]"},
      cf \in {-1, 0, 90, 150} }
    \cup { NoObject("null"), NoObject("scalar"), NoObject("garbage") }

\* Every variable of the job at rest.
MainIdle ==
  /\ report = Null /\ search = Null /\ task = "none" /\ opts = NoOpts
  /\ googleConfigured = TRUE /\ wikipediaReachable = TRUE
  /\ round = 0 /\ currentQuery = <<>> /\ searchRounds = <<>>
  /\ allResults = <<>> /\ screenshots = <<>>
  /\ searchPromises = <<>> /\ smsQuery = <<>> /\ smsMaxResults = 0
  /\ roundResults = <<>> /\ enhancedResults = <<>> /\ roundScreenshots = <<>>
  /\ toCapture = <<>> /\ roundAnalysis = NoAnalysis
  /\ searchResult = Null /\ finalAnalysis = Null /\ htmlContent = Null
  /\ synthesized = Null
  /\ caught = Null /\ deviations = 0 /\ storeFaulty = FALSE
  /\ started = {} /\ analyses = <<>> /\ provided = <<>>
  /\ http = Null /\ captured = <<>>
  /\ capUrl = "" /\ attempt = 0 /\ capLog = <<>> /\ capResult = Null
  /\ PollIdle

ParseInit ==
  /\ MainIdle /\ BatchIdle /\ CleanIdle /\ StoreIdle /\ EnhanceIdle
  /\ pc = "parse"
  /\ paText \in { Some(out) : out \in ParseInputs }
  /\ paReturned = Null

\* return this.parseAnalysisResult(text)
ApplyParse ==
  /\ pc = "parse"
  /\ paReturned' = Some(parseAnalysisResult(Val(paText)))
  /\ pc' = "parsed"
  /\ UNCHANGED <<jobVars, captureVars, batchVars, cleanVars, pollVars, storeVars, enhVars,
                 paText>>

ParseNext ==
  \/ ApplyParse

ParseSpec == ParseInit /\ [][ParseNext]_vars

\* The text parses to an object with a summary and a keyPoints list.
WellFormed(out) ==
  /\ out.kind = "object"
  /\ out.summary \notin {"undefined", ""}
  /\ out.keyPoints \in {"[]", "[points]"}

\* C24: for every model output text parseAnalysisResult returns a record
\* whose five fields summary, keyPoints, categories, sources and confidence
\* are all present; when the text cannot be parsed or lacks summary or a
\* keyPoints list, the confidence is 0.1.
C24_ParseAlwaysFiveFields ==
  pc = "parsed" =>
    /\ ~IsNull(paReturned)
    /\ LET r == Val(paReturned)
       IN /\ r.summary # "undefined" /\ r.keyPoints # "undefined"
          /\ r.categories # "undefined" /\ r.sources # "undefined"
          /\ r.confidence # -1
          /\ ~WellFormed(Val(paText)) => r.confidence = 10

\* An object without a summary, and one whose keyPoints is no list, parsed.
C24_Witness ==
  /\ pc = "parsed"
  /\ Val(paText).kind = "object"
  /\ Val(paText).summary = "undefined" /\ Val(paText).keyPoints = "string"
  /\ Val(paReturned).confidence = 10

\* C25: in any round, when the round-analysis output cannot be parsed,
\* analyzeRoundResults returns the canned needs-more-detail finding and a
\* next query equal to the topic with the fixed qualifier appended.
C25_FallbackQueryIsTopicPlusQualifier ==
  \A i \in 1..Len(analyses) :
    (~analyses[i].isNull /\ analyses[i].keyFindings = "needs more detail")
      => analyses[i].nextQuery = Append(Topic, Qualifier)

\* --------------------------------------------------- cleanHTMLContent alone
HtmlTokens == FenceTokens \cup RootMarkers \cup {"text"}

RECURSIVE TokenListsUpTo(_)
TokenListsUpTo(n) ==
  IF n = 0 THEN {<<>>}
  ELSE LET shorter == TokenListsUpTo(n - 1)
       IN shorter \cup {Append(l, t) : l \in {x \in shorter : Len(x) = n - 1},
                                       t \in HtmlTokens}

CleanInit ==
  /\ MainIdle /\ BatchIdle /\ ParseIdle /\ StoreIdle /\ EnhanceIdle
  /\ pc = "clean"
  /\ chRaw \in { Some(raw) : raw \in TokenListsUpTo(MaxTokens) }
  /\ chReturned = Null

\* return this.cleanHTMLContent(htmlContent)
ApplyClean ==
  /\ pc = "clean"
  /\ chReturned' = Some(cleanHTMLContent(Val(chRaw)))
  /\ pc' = "cleaned"
  /\ UNCHANGED <<jobVars, captureVars, batchVars, parseVars, pollVars, storeVars, enhVars,
                 chRaw>>

CleanNext ==
  \/ ApplyClean

CleanSpec == CleanInit /\ [][CleanNext]_vars

\* C26: for every raw model output, the document cleanHTMLContent returns
\* begins with a document root marker, also when the raw output has no
\* marker or has text before it.
C26_DocumentBeginsWithRootMarker ==
  pc = "cleaned" =>
    /\ Len(Val(chReturned)) > 0
    /\ Val(chReturned)[1] \in RootMarkers

\* The response last sent tells the client that its job was accepted.
Accepted(route) ==
  /\ ~IsNull(http) /\ Val(http).route = route
  /\ Val(http).status \in {200, 202}

\* C27: on submission the job record is created before the response is sent
\* and before any step of the background job runs, and the response is sent
\* without waiting for any step of the background job.
C27_RecordThenResponseThenJob ==
  [][ /\ (http' # http /\ Accepted("iterative-search")')
           => /\ pc = "idle" /\ pc' = "scheduled"
              /\ report' = Some(NewReport)
              /\ started' = {} /\ round' = 0
      /\ (http' # http /\ Accepted("search")')
           => /\ pc = "idle" /\ pc' = "markSearching"
              /\ search' = Some(NewSearch)
              /\ started' = {} /\ searchPromises' = <<>>
      /\ (pc = "idle" /\ pc' = "scheduled") => Accepted("iterative-search")'
      /\ (pc = "idle" /\ pc' = "markSearching") => Accepted("search")'
      /\ (task' = "iterative" /\ IsNull(report'))
           => (task = "iterative" /\ (IsNull(report) \/ DeleteReport))
      /\ (task' = "simple" /\ IsNull(search'))
           => (task = "simple" /\ (IsNull(search) \/ DeleteSearch))
    ]_vars

\* The response is out, the record is there, and the background job has
\* not taken a step.
C27_Witness ==
  /\ pc = "scheduled" /\ task = "iterative"
  /\ Accepted("iterative-search")
  /\ report = Some(NewReport)

\* The topic is a string whose length lies within lo..hi.
TopicWithin(t, lo, hi) == t.type = "string" /\ t.length >= lo /\ t.length <= hi

\* The request submitted fails the validation of its route.
InvalidSubmission ==
  /\ ~IsNull(submitted)
  /\ \/ Val(submitted).route = "iterative-search" /\ ~TopicWithin(Val(submitted).topic, 2, 200)
     \/ Val(submitted).route = "search" /\ ~TopicWithin(Val(submitted).topic, 1, 500)

\* C28: a submission whose topic is missing, not a string or outside the
\* length bounds is rejected synchronously: no job record is created and no
\* background job is scheduled for it.
C28_InvalidTopicRejected ==
  InvalidSubmission =>
    /\ IsNull(report) /\ IsNull(search)
    /\ task = "none" /\ pc = "rejected"
    /\ started = {}
    /\ ~IsNull(http) /\ Val(http).status = 400
    /\ Val(http).route = Val(submitted).route

\* A topic of 201 characters sent to the iterative route and rejected.
C28_Witness ==
  /\ ~IsNull(submitted)
  /\ Val(submitted).route = "iterative-search"
  /\ Val(submitted).topic = [type |-> "string", length |-> 201]
  /\ pc = "rejected" /\ IsNull(report)

FetchAnswered ==
  /\ ~IsNull(http') /\ Val(http').route = "result"
  /\ \/ http' # http
     \/ ~IsNull(report) /\ Val(report').views # Val(report).views

\* C30: a result fetch returns the report content only when the status of
\* the job is completed; for every other status it returns the not-ready
\* indicator and no report content.
C30_ContentOnlyWhenCompleted ==
  [][ FetchAnswered =>
        IF Val(http').status = 200
        THEN /\ Val(report).status = "completed"
             /\ Val(http').body = Val(report).htmlContent
        ELSE /\ Val(report).status # "completed"
             /\ Val(http').status = 202
             /\ Val(http').body = [status |-> Val(report).status]
    ]_vars

\* A fetch of a failed job answered with the not-ready indicator.
C30_Witness ==
  /\ ~IsNull(report) /\ Val(report).status = "failed"
  /\ ~IsNull(http) /\ Val(http).route = "result" /\ Val(http).status = 202
  /\ Val(http).body = [status |-> "failed"]

\* The fields of a record other than its view counter are the same.
SameButViews(a, b) == [a EXCEPT !.views = 0] = [b EXCEPT !.views = 0]

C32_SynthesisInputIsDeduplicated ==
  (task = "iterative" /\ ~IsNull(synthesized))
    => /\ UniqueUrls(Val(synthesized))
       /\ Val(synthesized) = deduplicateResults(allResults)

\* --------------------------------------------- screenshot file names
\* Source URLs: their host and path as generateScreenshotFilename writes them
\* (every character outside a-z, A-Z, 0-9 replaced by "-"), the length of
\* that text, and the query string, which the file name leaves out.
StoreUrls ==
  { [key |-> "example-com--a", keyLength |-> 14, query |-> ""],
    [key |-> "example-com--a", keyLength |-> 14, query |-> "?page=2"],
    [key |-> "example-com--long", keyLength |-> 100, query |-> ""] }

\* generateScreenshotFilename: host, path and the time to the second, cut to
\* 100 characters; stamp -1 stands for a time stamp that was cut off.
generateScreenshotFilename(url, now) ==
  [key |-> url.key,
   stamp |-> IF url.keyLength + 1 + StampLength <= FilenameLimit THEN now ELSE -1]

\* generateTimestamp: the first 15 characters of the compacted ISO time,
\* which end with the minute.
generateTimestamp(now) == now \div SecondsPerMinute

\* saveScreenshot: the paths of the image and of its thumbnail.
ImagePath(filename, now) ==
  [name |-> filename, suffix |-> "", stamp |-> generateTimestamp(now)]
ThumbnailPath(filename, now) ==
  [name |-> filename, suffix |-> "_thumb", stamp |-> generateTimestamp(now)]

StoreJobs == {1, 2}

StoreInit ==
  /\ MainIdle /\ pc = "store"
  /\ BatchIdle /\ ParseIdle /\ CleanIdle /\ EnhanceIdle
  /\ StoreIdle

storeRest == <<jobVars, pc, captureVars, batchVars, parseVars, cleanVars, pollVars, enhVars>>

\* Time passes.
Tick ==
  /\ pc = "store" /\ clock < MaxClock
  /\ clock' = clock + 1
  /\ UNCHANGED <<storeRest, names, files>>

\* captureScreenshots of one job names the file for its next result and
\* starts the capture.
NameScreenshot ==
  /\ pc = "store"
  /\ \E j \in StoreJobs, url \in StoreUrls :
       /\ \A n \in 1..Len(names) : names[n].job # j
       /\ Len(files) + Len(names) < MaxStores
       /\ names' = Append(names, [job |-> j,
                                  filename |-> generateScreenshotFilename(url, clock)])
  /\ UNCHANGED <<storeRest, clock, files>>

\* The capture has returned and saveScreenshot writes the two files.
SaveScreenshot ==
  /\ pc = "store"
  /\ \E n \in 1..Len(names) :
       /\ files' = Append(files, [job |-> names[n].job,
                                  image |-> ImagePath(names[n].filename, clock),
                                  thumbnail |-> ThumbnailPath(names[n].filename, clock)])
       /\ names' = SubSeq(names, 1, n - 1) \o SubSeq(names, n + 1, Len(names))
  /\ UNCHANGED <<storeRest, clock>>

StoreNext ==
  \/ Tick
  \/ NameScreenshot
  \/ SaveScreenshot

StoreSpec == StoreInit /\ [][StoreNext]_vars

\* C33: no two screenshot stores ever write the same image or thumbnail file
\* path, including the stores of two jobs that capture the same source URL
\* within the same second.
C33_StoredPathsAreUnique ==
  \A i, k \in 1..Len(files) :
    i # k => /\ files[i].image # files[k].image
             /\ files[i].thumbnail # files[k].thumbnail

\* ------------------------------------------------- content enhancement
\* The results enhanceResultsWithContent is called with: the first n of a
\* list that repeats the provider results, scored by their position.
FetchList(n) ==
  [i \in 1..n |->
     [<<G1, W1, G2, W2, W3>>[((i - 1) % 5) + 1] EXCEPT !.relevanceScore = i]]

\* An entry that keeps what the result held when its fetch fails.
ScrapedEntryKeepingOnFailure(result, outcome) ==
  [result EXCEPT !.content = IF outcome = "failed" THEN @ ELSE PageContent]

\* { ...result, content }: scrapePageContent returns the page text, or the
\* empty string from its catch.
ScrapedEntry(result, outcome) ==
  [result EXCEPT !.content = IF outcome = "failed" THEN 0 ELSE PageContent]

EnhanceInit ==
  /\ MainIdle /\ pc = "ehLoop"
  /\ BatchIdle /\ ParseIdle /\ CleanIdle /\ StoreIdle
  /\ ehResults \in { FetchList(n) : n \in 0..MaxFetches }
  /\ ehI = 0 /\ ehPromises = <<>> /\ ehEnhanced = <<>> /\ ehReturned = Null
  /\ fetched = {}

enhanceRest == <<jobVars, captureVars, batchVars, parseVars, cleanVars, pollVars, storeVars>>

\* The loop test passes: slice the batch and start one fetch per result.
StartFetchBatch ==
  /\ pc = "ehLoop" /\ ehI < Len(ehResults)
  /\ ehPromises' =
       [k \in 1..Min(FetchBatchSize, Len(ehResults) - ehI) |->
          [result |-> ehResults[ehI + k], settled |-> FALSE, entry |-> Null]]
  /\ pc' = "ehBatch"
  /\ UNCHANGED <<enhanceRest, ehResults, ehI, ehEnhanced, ehReturned, fetched>>

\* One fetch of the running batch ends, in any order.
FetchSettles ==
  /\ pc = "ehBatch"
  /\ \E k \in 1..Len(ehPromises), outcome \in {"page", "failed"} :
       /\ ~ehPromises[k].settled
       /\ ehPromises' =
            [ehPromises EXCEPT ![k] =
               [result |-> @.result, settled |-> TRUE,
                entry |-> Some(ScrapedEntry(@.result, outcome))]]
       /\ fetched' = fetched \cup {<<ehI + k, outcome>>}
  /\ UNCHANGED <<enhanceRest, pc, ehResults, ehI, ehEnhanced, ehReturned>>

\* A batch that is left as soon as its first fetch has ended.
FetchBatchDoneOnFirstSettled ==
  /\ pc = "ehBatch"
  /\ \E k \in 1..Len(ehPromises) : ehPromises[k].settled
  /\ ehEnhanced' = ehEnhanced \o
       [k \in 1..Len(SelectSeq(ehPromises, LAMBDA q : q.settled)) |->
          Val(SelectSeq(ehPromises, LAMBDA q : q.settled)[k].entry)]
  /\ ehPromises' = <<>>
  /\ ehI' = ehI + FetchBatchSize
  /\ pc' = "ehLoop"
  /\ UNCHANGED <<enhanceRest, ehResults, ehReturned, fetched>>

\* await Promise.all(contentPromises); enhancedResults.push(...batchResults);
\* the wait between batches; i += batchSize.
FetchBatchDone ==
  /\ pc = "ehBatch"
  /\ \A k \in 1..Len(ehPromises) : ehPromises[k].settled
  /\ ehEnhanced' = ehEnhanced \o [k \in 1..Len(ehPromises) |-> Val(ehPromises[k].entry)]
  /\ ehPromises' = <<>>
  /\ ehI' = ehI + FetchBatchSize
  /\ pc' = "ehLoop"
  /\ UNCHANGED <<enhanceRest, ehResults, ehReturned, fetched>>

\* The loop test fails: return enhancedResults.
ReturnEnhanced ==
  /\ pc = "ehLoop" /\ ~(ehI < Len(ehResults))
  /\ ehReturned' = Some(ehEnhanced)
  /\ pc' = "ehReturned"
  /\ UNCHANGED <<enhanceRest, ehResults, ehI, ehPromises, ehEnhanced, fetched>>

\* The two batched fan-outs, each called on its own.
FanOutInit == BatchInit \/ EnhanceInit

FanOutNext ==
  \/ StartBatch
  \/ CaptureSettles
  \/ BatchDone
  \/ ReturnBatch
  \/ StartFetchBatch
  \/ FetchSettles
  \/ FetchBatchDone
  \/ ReturnEnhanced

FanOutSpec == FanOutInit /\ [][FanOutNext]_vars

InFlight(promises) == Cardinality({k \in 1..Len(promises) : ~promises[k].settled})

\* C34: at every moment at most 5 content fetches of one
\* enhanceResultsWithContent call and at most 3 captures of one
\* captureMultipleScreenshots call are in flight, and no item of a batch is
\* started before every item of the batches before it has ended.
C34_BatchesBoundTheFanOut ==
  /\ InFlight(ehPromises) <= 5 /\ InFlight(msPromises) <= 3
  /\ ehPromises # <<>> =>
       /\ Len(ehEnhanced) = ehI
       /\ \A i \in 1..ehI : \E o \in {"page", "failed"} : <<i, o>> \in fetched
  /\ msPromises # <<>> =>
       /\ Len(msResults) = msI
       /\ \A i \in 1..msI : \E k \in 1..Len(msResults) : msResults[k].index = i - 1

\* Six fetches: the sixth is in flight, after the five of the first batch.
C34_Witness ==
  /\ Len(ehResults) = 6 /\ ehI = 5 /\ InFlight(ehPromises) = 1
  /\ Cardinality(fetched) = 5

\* C35: enhanceResultsWithContent never raises and returns the same results
\* in the same order with url, title, snippet, source and relevanceScore
\* unchanged; a fetch that failed leaves the empty string as the content of
\* that result only, every other result has the content that was fetched.
C35_EnhanceKeepsResultsAndOrder ==
  /\ pc \in {"ehLoop", "ehBatch", "ehReturned"} => (pc = "ehReturned") = ~IsNull(ehReturned)
  /\ ~IsNull(ehReturned) =>
       /\ Len(Val(ehReturned)) = Len(ehResults)
       /\ \A i \in 1..Len(ehResults) :
            LET in == ehResults[i]
                out == Val(ehReturned)[i]
            IN /\ out.url = in.url /\ out.title = in.title
               /\ out.snippet = in.snippet /\ out.source = in.source
               /\ out.relevanceScore = in.relevanceScore
               /\ out.content = IF <<i, "failed">> \in fetched THEN 0 ELSE PageContent

\* Six results returned, the second (which came with content of its own)
\* with a failed fetch and the sixth with the page fetched.
C35_Witness ==
  /\ pc = "ehReturned" /\ Len(ehResults) = 6
  /\ ehResults[2].content > 0
  /\ <<2, "failed">> \in fetched /\ <<6, "page">> \in fetched
  /\ Val(ehReturned)[2].content = 0

\* C36: the confidence of every analysis result produced by the final
\* synthesis lies in [0, 1] (0..100 hundredths), whatever confidence value
\* the model output carries.
C36_ConfidenceWithinUnitInterval ==
  /\ (task = "iterative" /\ ~IsNull(finalAnalysis))
       => Val(finalAnalysis).confidence \in 0..100
  /\ (~IsNull(report) /\ ~IsNull(Val(report).analysisResult))
       => Val(Val(report).analysisResult).confidence \in 0..100

\* C37: the round history of a job is append-only: a step that changes it
\* adds one record at its end and leaves the records before it as they
\* were, and the recorded round numbers are 1, 2, ..., n in order.
C37_RoundHistoryAppendOnly ==
  [][ task = "iterative" =>
        /\ searchRounds' # searchRounds =>
             /\ Len(searchRounds') = Len(searchRounds) + 1
             /\ SubSeq(searchRounds', 1, Len(searchRounds)) = searchRounds
        /\ \A i \in 1..Len(searchRounds') : searchRounds'[i].roundNumber = i
    ]_vars

\* Three rounds recorded, run with three different queries.
C37_Witness ==
  /\ task = "iterative" /\ Len(searchRounds) = 3
  /\ searchRounds[1].query # searchRounds[2].query
  /\ searchRounds[2].query # searchRounds[3].query

\* C38: in every status-poll response of an iterative-search job, for every
\* configured maxRounds, the reported number of completed rounds is at most
\* the reported total round budget.
C38_CurrentRoundWithinTotalRounds ==
  ~IsNull(polled)
    => Val(polled).out.body.currentRound <= Val(polled).out.body.totalRounds

\* The status a simple search job may take next.
SearchStatusSuccessors(status) ==
  CASE status = "pending" -> {"searching", "failed"}
    [] status = "searching" -> {"processing", "failed"}
    [] status = "processing" -> {"completed", "failed"}
    [] OTHER -> {}

\* C39: the status of a simple search job only moves forward along pending,
\* searching, processing, completed, with failed reachable from any
\* non-terminal status: it never moves backward, never skips a status on the
\* way to completed, and never leaves completed or failed.
C39_SearchStatusMovesForward ==
  [][ (~IsNull(search) /\ ~IsNull(search'))
        => \/ Val(search').status = Val(search).status
           \/ Val(search').status \in SearchStatusSuccessors(Val(search).status)
    ]_vars

\* A search that failed after its results had been stored.
C39_Witness ==
  /\ ~IsNull(search) /\ Val(search).status = "failed"
  /\ Val(search).searchResults # <<>>
  /\ pc = "done"

\* C40: when a job record is deleted while its background job is still
\* running, no later write of the job (a progress, completed or failed
\* update) re-creates it: once the record of a started job is gone, it is
\* gone in every later state.
C40_DeletedRecordStaysDeleted ==
  [][ /\ (task = "iterative" /\ IsNull(report)) => IsNull(report')
      /\ (task = "simple" /\ IsNull(search)) => IsNull(search')
    ]_vars

\* The job has run to its completed update after its record was deleted.
C40_Witness ==
  /\ task = "iterative" /\ IsNull(report)
  /\ pc = "done" /\ ~IsNull(htmlContent) /\ IsNull(caught)
  /\ Len(searchRounds) > 0

\* ------------------------------------------------------- specification
Next ==
  \/ SubmitIterative
  \/ BeginTask
  \/ StartRound
  \/ ProviderSettles
  \/ SearchReturns
  \/ EnhanceResults
  \/ CaptureOne
  \/ AnalyzeRound
  \/ RecordRound
  \/ ExitLoop
  \/ Synthesize
  \/ ReturnResult
  \/ SaveImages
  \/ GenerateHTML
  \/ CompleteUpdate
  \/ FailUpdate
  \/ SubmitSearch
  \/ MarkSearching
  \/ StoreResults
  \/ ProcessResults
  \/ StoreProcessed
  \/ FailSearch
  \/ StatusPoll
  \/ ResultFetch
  \/ DeleteReport
  \/ DeleteSearch

Spec == Init /\ [][Next]_vars

====
